---- MODULE Spec2Model ----
(***************************************************************************)
(* A model of the lc0 search coordinator (src/src/mcts/search.cc) and of   *)
(* the engine controller's use of it (src/src/engine.cc): one Search       *)
(* object, its watchdog thread, its worker threads running                 *)
(* ExecuteOneIteration, and the controller thread calling Stop, Abort,     *)
(* Wait and GetBestMove.                                                   *)
(*                                                                         *)
(* Floating point quantities that come from the neural network (Q, P and   *)
(* the PUCT score built from them) are not represented: wherever the code  *)
(* takes an argmax over such scores the model chooses any candidate that   *)
(* survives the integer-valued filters of the code.  The options           *)
(* sticky-checkmate, noise and verbose-move-stats are at their defaults     *)
(* (off).                                                                  *)
(*                                                                         *)
(* Granularity: every acquisition of nodes_mutex_ or counters_mutex_ is a  *)
(* step of its own, except where a function takes one lock, works and      *)
(* releases it (then the whole function is one step).  Work a thread does  *)
(* on its own data without a lock is joined to the step before it.  The    *)
(* out-of-order backup, which runs without any lock, is taken node by      *)
(* node, and its update of the counters as a read followed by a write.     *)
(* Node's own operations are atomic per node.                              *)
(***************************************************************************)
EXTENDS Integers, Sequences, FiniteSets, TLC

\* ------------------------------------------------------------------ bounds
NumWorkers == 2
NumNodes == 4
MaxPlayouts == 2
MaxTicks == 1
TickMs == 300
kMiniBatchSize == 2
kAllowedNodeCollisions == 1
kMaxPrefetchBatch == 2
MaxCacheEntries == 1

\* ------------------------------------------------------- program constants
kSmartPruningToleranceNodes == 100
kSmartPruningToleranceMs == 200
IntMax == 2147483647

\* ------------------------------------------------------------- the threads
Watchdog == 0
Workers == 1..NumWorkers
Controller == NumWorkers + 1
SearchThreads == {Watchdog} \cup Workers
Threads == SearchThreads \cup {Controller}

\* ---------------------------------------------------------------- the tree
\* The positions reachable from the root form a static tree; a node is the
\* child node of the edge that leads to it, and a root move is named by the
\* node it leads to.  Node i has the legal moves to 2i and 2i+1 that exist;
\* a node without legal moves is a checkmate or a stalemate.  The position
\* at the root decides how many of the nodes exist (LegalMoves below).
Null == 0
Root == 1
Nodes == 1..NumNodes
GetParent(node) == node \div 2

Min(a, b) == IF a < b THEN a ELSE b
Max(a, b) == IF a > b THEN a ELSE b

\* ------------------------------------------------------------ search limits
NoLimits == [visits |-> -1, playouts |-> -1, time_ms |-> -1, infinite |-> FALSE]
LimitChoices ==
    { [NoLimits EXCEPT !.infinite = TRUE],
      NoLimits,
      [NoLimits EXCEPT !.visits = 0],
      [NoLimits EXCEPT !.visits = 2],
      [NoLimits EXCEPT !.playouts = 2],
      [NoLimits EXCEPT !.time_ms = 0],
      [NoLimits EXCEPT !.time_ms = TickMs] }
\* A playouts limit above the bound on the visits: a search that has it is
\* followed up to its limit.
DeepLimits == [NoLimits EXCEPT !.playouts = MaxPlayouts + 2]
SearchMovesChoices == { {}, {2 * Root} }

\* The searches that are started: the thread count given to StartThreads,
\* the limits of the go command, and the options the constructor reads.
Config(t, l, s, ooo, temperature, pruning) ==
    [threads |-> t,
     limits |-> [visits |-> l.visits, playouts |-> l.playouts,
                 time_ms |-> l.time_ms, infinite |-> l.infinite,
                 searchmoves |-> s],
     kOutOfOrderEval |-> ooo, kTemperature |-> temperature,
     kAggressiveTimePruning |-> pruning]
Configs ==
    {Config(1, l, s, ooo, FALSE, 1) :
        l \in LimitChoices, s \in SearchMovesChoices, ooo \in BOOLEAN}
    \cup {Config(1, l, s, FALSE, TRUE, 0) :
        l \in {NoLimits, [NoLimits EXCEPT !.visits = 2]},
        s \in SearchMovesChoices}
    \cup {Config(NumWorkers, NoLimits, {}, ooo, FALSE, 0) : ooo \in BOOLEAN}
    \cup {Config(1, DeepLimits, {}, FALSE, FALSE, 1)}

\* The searches with a visits limit that are followed with two workers, and
\* with one worker and one allowed move.
VisitsLimit == [NoLimits EXCEPT !.visits = 1]
VisitsConfigs ==
    {Config(NumWorkers, VisitsLimit, {}, TRUE, FALSE, 0)}
    \cup {Config(1, VisitsLimit, {2 * Root}, ooo, FALSE, 1) : ooo \in BOOLEAN}

\* What ExtendNode reads of the position history at the root besides the
\* legal moves: whether there is mating material, the plies without capture
\* or pawn move, the repetitions, and what a tablebase probe would give
\* ("none": no tablebase, castling rights or too many pieces; "fail": the
\* probe fails); the nodes 1..positions that the legal moves reach; and
\* whether a side without legal moves is under check.
PlainBoard == [has_mating_material |-> TRUE, no_capture_no_pawn_ply |-> 1,
               repetitions |-> 0, probe_wdl |-> "none",
               positions |-> NumNodes - 1, is_under_check |-> FALSE]
DeepBoard == [PlainBoard EXCEPT !.positions = NumNodes]
\* What probe_wdl gives with a state other than FAIL.
WDLScores == {"win", "loss", "draw", "cursed_win", "blessed_loss"}
\* The positions with a tablebase whose nodes below the root have legal
\* moves: one for each outcome of the probe, one that is not probed for its
\* fifty-move counter, and one whose mates are checkmates.
TablebaseBoards ==
    {[DeepBoard EXCEPT !.no_capture_no_pawn_ply = 0, !.probe_wdl = wdl]
        : wdl \in WDLScores \cup {"fail"}}
    \cup {[DeepBoard EXCEPT !.probe_wdl = "win"],
          [DeepBoard EXCEPT !.no_capture_no_pawn_ply = 0,
                            !.probe_wdl = "loss", !.is_under_check = TRUE]}
Boards ==
    { PlainBoard,
      [PlainBoard EXCEPT !.has_mating_material = FALSE],
      [PlainBoard EXCEPT !.no_capture_no_pawn_ply = 100],
      [PlainBoard EXCEPT !.repetitions = 2],
      [PlainBoard EXCEPT !.no_capture_no_pawn_ply = 0, !.probe_wdl = "draw"],
      [PlainBoard EXCEPT !.no_capture_no_pawn_ply = 0, !.probe_wdl = "fail"] }
\* The positions tried with a configuration: the draw rules and the
\* tablebase with one worker and no limits, the deeper tree with the search
\* that is followed further and with the workers that evaluate in order.
BoardsOf(c) ==
    IF c = Config(1, NoLimits, {}, FALSE, FALSE, 1) THEN Boards
    ELSE IF c = Config(NumWorkers, NoLimits, {}, FALSE, FALSE, 0)
    THEN {PlainBoard, DeepBoard}
    ELSE IF c.limits.playouts > MaxPlayouts
    THEN {DeepBoard} \cup TablebaseBoards
    ELSE {PlainBoard}

VARIABLES
    threads,             \* the number of workers given to StartThreads
    initial_visits,      \* initial_visits_: the visits of the root at the start
    board,               \* the position at the root, as ExtendNode reads it
    limits,              \* SearchLimits limits_, with searchmoves
    kOutOfOrderEval,     \* option out-of-order-eval
    kTemperature,        \* the effective temperature is non-zero
    kAggressiveTimePruning, \* option futile-search-aversion (0 or 1)
    elapsed,             \* GetTimeSinceStart(), in ms
    n,                   \* Node::n_
    n_in_flight,         \* Node::n_in_flight_
    edges,               \* the nodes whose edges have been created
    terminal,            \* the nodes made terminal
    game_result,         \* the result MakeTerminal was given ("none" before)
    tb_hits,             \* Search::tb_hits_
    priors,              \* the nodes whose edges have their P assigned
    best_move_edge,      \* Search::best_move_edge_ (Null or a root child)
    last_outputted,      \* Search::last_outputted_best_move_edge_
    total_playouts, cum_depth, max_depth, remaining_playouts,
    stop, found_best_move, responded_bestmove,
    best_move,           \* Search::best_move_.first
    bonus_time_ms,       \* the process-wide carry
    pc,                  \* where each thread is
    held,                \* the locks each thread holds, in acquisition order
    minibatch,           \* SearchWorker::minibatch_
    computation,         \* SearchWorker::computation_: its entries
    gather,              \* the locals of GatherMinibatch
    cursor,              \* the node or index a backup walk is at
    racy,                \* what was read outside the lock and awaits its write
    \* history variables
    bestmove_calls, aborted, abort_preceded_callback,
    stop_called, wait_returned, completed_depths, crashed,
    late_info,           \* an info callback came after the best move or an Abort
    \* the engine controller
    options_,            \* EngineController::options_: the options it reads
    cache_,              \* EngineController::cache_: how many entries it holds
    tree_,               \* EngineController::tree_: Null or its position
    current_position_,   \* EngineController::current_position_, or Null
    go_params_,          \* EngineController::go_params_
    search_,             \* EngineController::search_: Null or the Search
    network_,            \* EngineController::network_: Null or the weights
    network_path_,       \* EngineController::network_path_ (with backend_)
    tm,                  \* the last run of PopulateSearchLimits
    last_call            \* history: the controller's last call and its end

treeVars == <<n, n_in_flight, edges, terminal, game_result, tb_hits, priors>>
\* The state of the engine controller.
engineVars == <<options_, cache_, tree_, current_position_, go_params_,
                search_, network_, network_path_, tm, last_call>>
\* What no step of a search writes: what it was constructed with, and the
\* state of the controller that constructed it.
cfgVars == <<initial_visits, threads, limits, kOutOfOrderEval, kTemperature,
             kAggressiveTimePruning, board, engineVars>>
counterVars == <<total_playouts, cum_depth, max_depth>>
stopVars == <<stop, found_best_move, responded_bestmove, best_move,
              bonus_time_ms, best_move_edge, last_outputted>>
workerVars == <<minibatch, computation, gather, cursor, racy>>
histVars == <<bestmove_calls, aborted,
              abort_preceded_callback, stop_called, wait_returned, completed_depths, crashed, late_info>>
vars == <<cfgVars, elapsed, treeVars, counterVars, remaining_playouts,
          stopVars, pc, held, workerVars, histVars>>

\* ------------------------------------------------------ the engine's start
\* The float quantities of the time computation (movestogo, slowmover, the
\* times divided and scaled) are exact rationals num/den with den > 0, in
\* lowest terms; the rounding of float arithmetic is not represented, the
\* conversion of the result to an integer is.
RECURSIVE GCD(_, _)
GCD(a, b) == IF b = 0 THEN a ELSE GCD(b, a % b)
Abs(a) == IF a < 0 THEN -a ELSE a
Rat(num, den) ==
    LET g == GCD(Abs(num), den)
    IN  [num |-> IF num < 0 THEN -((-num) \div g) ELSE num \div g,
         den |-> den \div g]
FromInt(i) == [num |-> i, den |-> 1]
RAdd(a, b) == Rat(a.num * b.den + b.num * a.den, a.den * b.den)
RSub(a, b) == Rat(a.num * b.den - b.num * a.den, a.den * b.den)
RMul(a, b) == Rat(a.num * b.num, a.den * b.den)
RDiv(a, b) == Rat(a.num * b.den, a.den * b.num)       \* b > 0
RLess(a, b) == a.num * b.den < b.num * a.den
RMax(a, b) == IF RLess(a, b) THEN b ELSE a

\* The options the controller reads: the weights file (the backend and its
\* options go with it), slowmover, move-overhead (ms) and threads.
DefaultOptions == [weights |-> "good", slowmover |-> FromInt(1),
                   move_overhead |-> 100, threads |-> 1]
\* GoParams: `time` is wtime or btime, `increment` winc or binc, of the side
\* to move; -1 stands for a parameter the go command did not give.
NoParams == [time |-> -1, increment |-> -1, movestogo |-> -1,
             movetime |-> -1, nodes |-> -1, infinite |-> FALSE,
             ponder |-> FALSE]
\* What a run of PopulateSearchLimits computed; `ran` is false before the
\* first run.
NoComputation ==
    [ran |-> FALSE, clock |-> FALSE, params |-> NoParams,
     options |-> DefaultOptions,
     guessed_movestogo |-> FromInt(1), bonus_before |-> -1,
     movestogo |-> FromInt(1), split |-> FromInt(0), scaled |-> FromInt(0),
     this_move_time |-> FromInt(0),
     limits |-> [time_ms |-> -1, visits |-> -1, infinite |-> FALSE]]
\* The controller's last call: which, whether it ended by an exception, and
\* whether the configured weights could be loaded when it was made.
NoCall == [op |-> "none", threw |-> FALSE, loadable |-> TRUE]
\* search_ before the first go and after a reset.
NoSearch == [created |-> FALSE, network |-> "none", threads |-> 0,
             time_ms |-> -1]
\* The controller as constructed.
ControllerStart ==
    /\ cache_ = 0
    /\ tree_ = Null
    /\ current_position_ = Null
    /\ go_params_ = NoParams
    /\ search_ = NoSearch
    /\ network_ = "none"
    /\ network_path_ = ""
    /\ tm = NoComputation
    /\ last_call = NoCall
EngineStart == options_ = DefaultOptions /\ ControllerStart

NoGather == [minibatch_size |-> 0, collisions_found |-> 0,
             number_out_of_order |-> 0]
NoRacy == [total_playouts |-> 0, cum_depth |-> 0, max_depth |-> 0,
           pending |-> FALSE, best_move_edge |-> 0]

\* The tree a search is given: a new one, or the one an earlier search of
\* the same game has left (the root was visited three times, two of them to
\* the first move, which ended the game; nothing is in flight).
FreshTree == [n |-> [x \in Nodes |-> 0], edges |-> {}, terminal |-> {},
              game_result |-> [x \in Nodes |-> "none"],
              priors |-> {}]
ReusedTree ==
    [n |-> [x \in Nodes |->
              IF x = Root THEN 3 ELSE IF x = 2 * Root THEN 2 ELSE 0],
     edges |-> {Root}, terminal |-> {2 * Root}, priors |-> {Root},
     game_result |-> [x \in Nodes |-> IF x = 2 * Root THEN "draw" ELSE "none"]]
\* The position of the reused tree: the moves of the root end the game.
EndedBoard == [PlainBoard EXCEPT !.positions = 2 * Root + 1]
\* The trees tried with a configuration: the reused one with one worker, no
\* limits, in order.
TreesOf(c) ==
    IF c \in {Config(1, NoLimits, s, FALSE, FALSE, 1) :
                s \in SearchMovesChoices}
    THEN {FreshTree, ReusedTree}
    ELSE {FreshTree}

\* A search as constructed with the configuration c.
Constructed(c) ==
    /\ threads = c.threads
    /\ limits = c.limits
    /\ kOutOfOrderEval = c.kOutOfOrderEval
    /\ kTemperature = c.kTemperature
    /\ kAggressiveTimePruning = c.kAggressiveTimePruning
    /\ \E tree \in TreesOf(c) :
          /\ board \in IF tree = ReusedTree THEN {EndedBoard} ELSE BoardsOf(c)
          /\ initial_visits = tree.n[Root]
          /\ n = tree.n
          /\ edges = tree.edges
          /\ terminal = tree.terminal
          /\ game_result = tree.game_result
          /\ priors = tree.priors
    /\ elapsed = 0
    /\ tb_hits = 0
    /\ n_in_flight = [x \in Nodes |-> 0]
    /\ best_move_edge = Null
    /\ last_outputted = Null
    /\ total_playouts = 0
    /\ cum_depth = 0
    /\ max_depth = 0
    /\ remaining_playouts = IntMax
    /\ stop = FALSE
    /\ found_best_move = FALSE
    /\ responded_bestmove = FALSE
    /\ best_move = Null
    /\ bonus_time_ms = -1
    /\ pc = [t \in Threads |->
               IF t = Watchdog THEN "wd_loop"
               ELSE IF t = Controller THEN "idle"
               ELSE IF t <= threads THEN "loop" ELSE "unused"]
    /\ held = [t \in Threads |-> <<>>]
    /\ minibatch = [w \in Workers |-> <<>>]
    /\ computation = [w \in Workers |-> <<>>]
    /\ gather = [w \in Workers |-> NoGather]
    /\ cursor = [w \in Workers |-> 0]
    /\ racy = [w \in Workers |-> NoRacy]
    /\ bestmove_calls = 0
    /\ aborted = FALSE
    /\ abort_preceded_callback = FALSE
    /\ stop_called = FALSE
    /\ wait_returned = FALSE
    /\ completed_depths = {}
    /\ crashed = FALSE
    /\ late_info = FALSE
SearchStart == \E c \in Configs : Constructed(c)

\* One search is followed from its construction; the controller that made it
\* is not.
Init == SearchStart /\ EngineStart

\* ---------------------------------------------------------------- the locks
\* nodes_mutex_ is a readers-writer lock ("nodes" exclusive, "nodes_shared"
\* shared), counters_mutex_ a plain mutex ("counters").
Holds(t, l) == \E i \in 1..Len(held[t]) : held[t][i] = l
CanLock(l) ==
    CASE l = "nodes" ->
           \A t \in Threads : ~Holds(t, "nodes") /\ ~Holds(t, "nodes_shared")
      [] l = "nodes_shared" -> \A t \in Threads : ~Holds(t, "nodes")
      [] l = "counters" -> \A t \in Threads : ~Holds(t, "counters")
Lock(t, l) == held' = [held EXCEPT ![t] = Append(@, l)]
Unlock(t) == held' = [held EXCEPT ![t] = <<>>]

\* --------------------------------------------------------- node operations
HasChildren(node) == node \in edges
LegalMoves(node) ==
    {c \in {2 * node, 2 * node + 1} : c \in Nodes /\ c <= board.positions}
EdgesOf(node) == IF HasChildren(node) THEN LegalMoves(node) ELSE {}
IsTerminal(node) == node \in terminal
RECURSIVE SumN(_)
SumN(S) == IF S = {} THEN 0
           ELSE LET c == CHOOSE x \in S : TRUE IN n[c] + SumN(S \ {c})
GetChildrenVisits(node) == SumN(EdgesOf(node))
GetN(edge) == IF edge = Null THEN 0 ELSE n[edge]
\* Variant: a score update can always be started.
StartsAlways(node) == TRUE
\* Node::TryStartScoreUpdate: fails on a node that is being extended.
TryStartScoreUpdate(node) == ~(n[node] = 0 /\ n_in_flight[node] > 0)

\* ------------------------------------------------------ best move selection
\* Variant: the searchmoves filter left out.
EveryMoveAllowed(c) == TRUE
SearchMoveAllowed(c) ==
    limits.searchmoves = {} \/ c \in limits.searchmoves
\* Variant: best-move selection over every edge.
AllEdges(parent) == EdgesOf(parent)
Considered(parent) ==
    {c \in EdgesOf(parent) : parent # Root \/ SearchMoveAllowed(c)}
\* The edges the tuple comparison (n, q, p) can return: those of most visits.
BestChildByVisits(parent, visits) ==
    IF Considered(parent) = {} THEN {Null}
    ELSE {c \in Considered(parent) :
             \A d \in Considered(parent) : visits[d] <= visits[c]}
GetBestChildNoTemperature(parent) == BestChildByVisits(parent, n)
\* The edges lower_bound can return for a toss in [0, sum): the first
\* considered edge (toss = 0) or one of positive weight, that is, n > 0.
GetBestChildWithTemperature(parent) ==
    IF Considered(parent) = {} THEN {Null}
    ELSE {c \in Considered(parent) :
             n[c] > 0 \/ \A d \in Considered(parent) : c <= d}
GetBestMoveInternal ==
    IF responded_bestmove THEN {best_move}
    ELSE IF ~HasChildren(Root) THEN {Null}
    ELSE IF kTemperature /\ GetChildrenVisits(Root) > 0
         THEN GetBestChildWithTemperature(Root)
         ELSE GetBestChildNoTemperature(Root)

\* ------------------------------------------------------------ stop handling
PlayoutsLimitReached ==
    limits.playouts >= 0 /\ total_playouts >= limits.playouts
VisitsLimitReached ==
    limits.visits >= 0 /\ total_playouts + initial_visits >= limits.visits
TimeLimitReached == limits.time_ms >= 0 /\ elapsed >= limits.time_ms
LimitReached == PlayoutsLimitReached \/ VisitsLimitReached \/ TimeLimitReached

\* The order in which MaybeTriggerStop takes its two locks.
\* Variant: counters_mutex_ first.
CountersThenNodes == <<"counters", "nodes">>
MaybeTriggerStopLockOrder == <<"nodes", "counters">>

\* MaybeTriggerStop returns early when the best move was already reported ...
\* Variant: the check left out.
NeverResponded == FALSE
AlreadyResponded == responded_bestmove

\* ... and on an unexpanded root.
\* Variant: the check left out.
RootAssumedExpanded == FALSE
RootNotYetExpanded == total_playouts = 0

\* What MaybeTriggerStop leaves in stop_.
\* Variant: the limits are not looked at.
StopOnlyOnRequest == stop \/ found_best_move
StopNeeded == stop \/ found_best_move \/ LimitReached

MTSLock(t, at, i, next) ==
    /\ pc[t] = at
    /\ CanLock(MaybeTriggerStopLockOrder[i])
    /\ Lock(t, MaybeTriggerStopLockOrder[i])
    /\ pc' = [pc EXCEPT ![t] = next]
    /\ UNCHANGED <<cfgVars, elapsed, treeVars, counterVars, remaining_playouts,
                   stopVars, workerVars, histVars>>

\* The unused time MaybeTriggerStop stores.
UnusedTime(time_ms, time_since_start) == Max(0, time_ms - time_since_start)
\* Variant: the unused time is stored whatever stopped the search.
StoresBonusAlways == TRUE
\* Whether MaybeTriggerStop stores the unused time once it has responded.
StoresBonus == found_best_move

\* The best-move callback has been invoked, or the search aborted.
Responded == bestmove_calls > 0 \/ aborted
\* Variant: MaybeOutputInfo does not look at responded_bestmove_.
OutputsInfoAfterResponse == best_move_edge # Null
\* Whether MaybeOutputInfo calls SendUciInfo with an edge to report (of the
\* changes it looks for, the one of the time can hold at any call).
OutputsInfo == ~responded_bestmove /\ best_move_edge # Null

\* SendUciInfo: it returns at once when best_move_edge_ is unset, and
\* otherwise records the edge and invokes the info callback.
InfoCallbackInvoked == best_move_edge # Null
\* Variant: MaybeTriggerStop does not call SendUciInfo.
NoFinalInfo == last_outputted
\* The edge last reported once MaybeTriggerStop has called SendUciInfo.
FinalInfo == IF InfoCallbackInvoked THEN best_move_edge ELSE last_outputted

\* The body of MaybeTriggerStop, both locks held, and the return.
MTSBody(t, at, next) ==
    /\ pc[t] = at
    /\ pc' = [pc EXCEPT ![t] = next]
    /\ Unlock(t)
    /\ IF AlreadyResponded
       THEN UNCHANGED <<stopVars, bestmove_calls>>
       ELSE IF RootNotYetExpanded
       THEN UNCHANGED <<stopVars, bestmove_calls>>
       ELSE /\ stop' = StopNeeded
            /\ UNCHANGED found_best_move
            /\ IF StopNeeded
               THEN /\ last_outputted' = FinalInfo
                    /\ best_move' \in GetBestMoveInternal
                    /\ bestmove_calls' = bestmove_calls + 1
                    /\ responded_bestmove' = TRUE
                    /\ best_move_edge' = Null
                    /\ bonus_time_ms' =
                          IF StoresBonus
                          THEN UnusedTime(limits.time_ms, elapsed)
                          ELSE bonus_time_ms
               ELSE UNCHANGED <<last_outputted, best_move, bestmove_calls,
                                responded_bestmove, best_move_edge,
                                bonus_time_ms>>
    /\ late_info' = (late_info \/ (~AlreadyResponded /\ ~RootNotYetExpanded
                                   /\ StopNeeded /\ InfoCallbackInvoked
                                   /\ Responded))
    /\ UNCHANGED <<cfgVars, elapsed, treeVars, counterVars, remaining_playouts, aborted, abort_preceded_callback,
                   stop_called, wait_returned, completed_depths, crashed>>

\* ------------------------------------------------------------- the watchdog
\* Variant: the threads do not look at stop_.
AlwaysActive == TRUE
\* Search::IsSearchActive (under counters_mutex_).
IsSearchActive == ~stop

\* One turn of the loop of WatchdogThread: IsSearchActive, then the timed
\* wait on watchdog_cv_ (nobody notifies it; the wait ends by its timeout of
\* at most 100 ms or at once when stop_ is set).  Both take counters_mutex_.
WatchdogLoop ==
    /\ pc[Watchdog] = "wd_loop"
    /\ CanLock("counters")
    /\ pc' = [pc EXCEPT ![Watchdog] =
                IF IsSearchActive THEN "mts1" ELSE "fin1"]
    /\ UNCHANGED <<cfgVars, elapsed, treeVars, counterVars, remaining_playouts,
                   stopVars, held, workerVars, histVars>>

WatchdogTriggerLock1 == MTSLock(Watchdog, "mts1", 1, "mts2")
WatchdogTriggerLock2 == MTSLock(Watchdog, "mts2", 2, "mts3")
WatchdogTrigger ==
    MTSBody(Watchdog, "mts3", "wd_loop") /\ UNCHANGED workerVars
WatchdogFinalLock1 == MTSLock(Watchdog, "fin1", 1, "fin2")
WatchdogFinalLock2 == MTSLock(Watchdog, "fin2", 2, "fin3")
WatchdogFinal ==
    MTSBody(Watchdog, "fin3", "done") /\ UNCHANGED workerVars

\* Time passes.  The clock is read only for a time limit (the stop check, the
\* smart pruning estimate and the bonus time), so it is not advanced without
\* one.
Tick ==
    /\ limits.time_ms >= 0
    /\ elapsed < MaxTicks * TickMs
    /\ elapsed' = elapsed + TickMs
    /\ UNCHANGED <<cfgVars, treeVars, counterVars, remaining_playouts,
                   stopVars, pc, held, workerVars,
                   histVars>>

\* ----------------------------------------------------------- the controller
\* Search::Stop, then Search::Wait (EngineController::Stop).
Stop ==
    /\ pc[Controller] = "idle"
    /\ CanLock("counters")
    /\ stop' = TRUE
    /\ stop_called' = TRUE
    /\ pc' = [pc EXCEPT ![Controller] = "wait"]
    /\ UNCHANGED <<cfgVars, elapsed, treeVars, counterVars, remaining_playouts,
                   found_best_move, responded_bestmove, best_move,
                   bonus_time_ms, best_move_edge, last_outputted, held,
                   workerVars, bestmove_calls, aborted,
                   abort_preceded_callback, wait_returned, completed_depths, crashed, late_info>>

\* What Abort leaves in responded_bestmove_.
\* Variant: Abort leaves the flag alone.
RespondedKeptByAbort == responded_bestmove
RespondedAfterAbort == TRUE

\* Search::Abort, then Search::Wait (~Search, run by search_.reset() in
\* NewGame, SetPosition and SetupPosition).
Abort ==
    /\ pc[Controller] = "idle"
    /\ CanLock("counters")
    /\ responded_bestmove' = RespondedAfterAbort
    /\ stop' = TRUE
    /\ aborted' = TRUE
    /\ abort_preceded_callback' =
          IF aborted THEN abort_preceded_callback ELSE bestmove_calls = 0
    /\ pc' = [pc EXCEPT ![Controller] = "wait_destroy"]
    /\ UNCHANGED <<cfgVars, elapsed, treeVars, counterVars, remaining_playouts,
                   found_best_move, best_move, bonus_time_ms, best_move_edge,
                   last_outputted, held, workerVars,
                   bestmove_calls, stop_called, wait_returned, completed_depths, crashed, late_info>>

\* Search::Wait returns once every thread has been joined.
Wait ==
    /\ pc[Controller] \in {"wait", "wait_destroy"}
    /\ \A t \in SearchThreads : pc[t] \in {"done", "unused"}
    /\ wait_returned' = TRUE
    /\ pc' = [pc EXCEPT ![Controller] =
                IF pc[Controller] = "wait" THEN "idle" ELSE "destroyed"]
    /\ UNCHANGED <<cfgVars, elapsed, treeVars, counterVars, remaining_playouts,
                   stopVars, held, workerVars,
                   bestmove_calls, aborted, abort_preceded_callback,
                   stop_called, completed_depths,
                   crashed, late_info>>

\* Search::GetBestMove: the tree lock shared, then the counters lock.
GetBestMoveLock1 ==
    /\ pc[Controller] = "idle"
    /\ CanLock("nodes_shared")
    /\ Lock(Controller, "nodes_shared")
    /\ pc' = [pc EXCEPT ![Controller] = "gbm2"]
    /\ UNCHANGED <<cfgVars, elapsed, treeVars, counterVars, remaining_playouts,
                   stopVars, workerVars, histVars>>
GetBestMoveLock2 ==
    /\ pc[Controller] = "gbm2"
    /\ CanLock("counters")
    /\ Lock(Controller, "counters")
    /\ pc' = [pc EXCEPT ![Controller] = "gbm3"]
    /\ UNCHANGED <<cfgVars, elapsed, treeVars, counterVars, remaining_playouts,
                   stopVars, workerVars, histVars>>
GetBestMove ==
    /\ pc[Controller] = "gbm3"
    /\ Unlock(Controller)
    /\ pc' = [pc EXCEPT ![Controller] = "idle"]
    /\ UNCHANGED <<cfgVars, elapsed, treeVars, counterVars, remaining_playouts,
                   stopVars, workerVars, histVars>>
\* -------------------------------------------------------------- the workers
CacheMisses(w) ==
    Cardinality({i \in 1..Len(computation[w]) : ~computation[w][i].is_cache_hit})
Last(seq) == seq[Len(seq)]
Front(seq) == SubSeq(seq, 1, Len(seq) - 1)

\* Variant: the entry evaluated out of order stays in the computation.
KeepsCacheHit(entries) == entries
\* CachingComputation::PopCacheHit: the last entry, a cache hit, is removed.
PopCacheHit(entries) == Front(entries)
\* The index FetchMinibatchResults passes for the k-th entry of the
\* minibatch (counted from 1 here): it has moved on once for every entry
\* before it that was sent to the network.
IdxInComputation(w, k) ==
    1 + Cardinality({j \in 1..(k - 1) : minibatch[w][j].nn_queried})

\* The bound on the visits of a search: once the root has MaxPlayouts new
\* visits (or those of a larger playouts limit, or one more than a visits
\* limit and a minibatch), finished or in flight, a worker gathers no
\* further node and goes on with the minibatch it has.
Budget ==
    Max(MaxPlayouts,
        Max(limits.playouts,
            IF limits.visits >= 0
            THEN limits.visits - initial_visits + kMiniBatchSize + 1 ELSE 0))
WithinBudget == n[Root] - initial_visits + n_in_flight[Root] < Budget

\* The loop of SearchWorker::RunBlocking: IsSearchActive, then
\* InitializeIteration.
WorkerLoop(w) ==
    /\ pc[w] = "loop"
    /\ CanLock("counters")
    /\ pc' = [pc EXCEPT ![w] = IF IsSearchActive THEN "gather" ELSE "done"]
    /\ minibatch' = [minibatch EXCEPT ![w] = <<>>]
    /\ computation' = [computation EXCEPT ![w] = <<>>]
    /\ UNCHANGED <<cfgVars, elapsed, treeVars, counterVars, remaining_playouts,
                   stopVars, held, gather, cursor, racy,
                   histVars>>

\* The condition of the loop of GatherMinibatch.
GatherGoesOn(w) ==
    /\ gather[w].minibatch_size < kMiniBatchSize
    /\ gather[w].number_out_of_order < kMiniBatchSize
    /\ ~(gather[w].minibatch_size > 0 /\ CacheMisses(w) = 0)

\* The root children a descent may select: not pruned by their visit deficit
\* to the best-move edge, and allowed by searchmoves.
\* Variant: the deficit is taken to the visits of the root, and the best-move
\* edge is not exempted.
NotPrunedAgainstRoot(child) == ~(remaining_playouts < n[Root] - n[child])
NotPruned(child) ==
    ~(/\ child # best_move_edge
      /\ remaining_playouts < GetN(best_move_edge) - n[child])
RootCandidates ==
    {c \in EdgesOf(Root) : NotPruned(c) /\ SearchMoveAllowed(c)}
Candidates(node) == IF node = Root THEN RootCandidates ELSE EdgesOf(node)

\* The descents PickNodeToExtend can make from `node`: the node it ends at,
\* whether that is a collision, its depth, and the nodes whose n_in_flight it
\* incremented.  no_edge: no root child was selectable (best_edge stays
\* null, and the code dereferences it).
RECURSIVE Descend(_, _)
Descend(node, depth) ==
    IF ~TryStartScoreUpdate(node)
    THEN {[node |-> node, is_collision |-> TRUE, depth |-> depth,
           path |-> {}, no_edge |-> FALSE]}
    ELSE IF ~HasChildren(node)
    THEN {[node |-> node, is_collision |-> FALSE, depth |-> depth,
           path |-> {node}, no_edge |-> FALSE]}
    ELSE IF Candidates(node) = {}
    THEN {[node |-> node, is_collision |-> FALSE, depth |-> depth,
           path |-> {node}, no_edge |-> TRUE]}
    ELSE UNION {{[o EXCEPT !.path = @ \cup {node}] : o \in Descend(c, depth + 1)}
                : c \in Candidates(node)}

\* Variant: an infinite search ends on its only move as well.
OnlyOneMoveAtAll ==
    /\ TryStartScoreUpdate(Root)
    /\ HasChildren(Root)
    /\ Cardinality(RootCandidates) <= 1
\* Whether a descent through the root sets found_best_move_.
OnlyOneMovePossible ==
    /\ TryStartScoreUpdate(Root)
    /\ HasChildren(Root)
    /\ Cardinality(RootCandidates) <= 1
    /\ ~limits.infinite

NewEntry(o) == [node |-> o.node, is_collision |-> o.is_collision,
                depth |-> o.depth, nn_queried |-> FALSE,
                is_cache_hit |-> FALSE]

\* The by-rule and tablebase terminations of ExtendNode, for a node whose
\* position has the attributes of the root's.
DrawByRule ==
    \/ ~board.has_mating_material
    \/ board.no_capture_no_pawn_ply >= 100
    \/ board.repetitions >= 2
TablebaseHit ==
    /\ board.probe_wdl # "none"
    /\ board.no_capture_no_pawn_ply = 0
    /\ board.probe_wdl # "fail"
\* Variant: the rules are applied to the root as well.
AlsoAtRoot(node) == TRUE
\* The nodes the rules may end: "if (node != search_->root_node_)".
ShortCircuits(node) == node # Root
\* Whether ExtendNode makes the node terminal instead of creating its edges.
MakesTerminal(node) ==
    \/ LegalMoves(node) = {}
    \/ ShortCircuits(node) /\ (DrawByRule \/ TablebaseHit)
\* Variant: every node made terminal counts as a tablebase hit.
EveryTerminalHits(node) == MakesTerminal(node)
\* Whether ExtendNode reaches the probe with this node and the probe does
\* not fail: the branch that ends with tb_hits_.fetch_add(1).
ProbeHits(node) ==
    /\ LegalMoves(node) # {}
    /\ ShortCircuits(node)
    /\ ~DrawByRule
    /\ TablebaseHit
\* The result MakeTerminal is given by the first rule that applies.
ResultOf(node) ==
    IF LegalMoves(node) = {}
    THEN IF board.is_under_check THEN "white_won" ELSE "draw"
    ELSE IF DrawByRule THEN "draw"
    ELSE IF board.probe_wdl = "win" THEN "black_won"
    ELSE IF board.probe_wdl = "loss" THEN "white_won"
    ELSE "draw"

\* SearchWorker::ExtendNode on the node just picked (no lock is held; the
\* node is this worker's until it is backed up), then AddNodeToComputation,
\* and the choice of out-of-order evaluation with its FetchSingleNodeResult.
\* Whether the position is in the cache is up to the cache, which outlives
\* the search.  `before` is the minibatch without the entry `o`.
ExtendNode(w, o, before) ==
    LET node == o.node
        becomes_terminal == ~IsTerminal(node) /\ MakesTerminal(node)
        queried == ~IsTerminal(node) /\ ~becomes_terminal
    IN  /\ terminal' = IF becomes_terminal THEN terminal \cup {node}
                       ELSE terminal
        /\ game_result' = IF becomes_terminal
                          THEN [game_result EXCEPT ![node] = ResultOf(node)]
                          ELSE game_result
        /\ tb_hits' = IF becomes_terminal /\ ProbeHits(node)
                      THEN tb_hits + 1 ELSE tb_hits
        /\ edges' = IF queried THEN edges \cup {node} ELSE edges
        /\ gather' = [gather EXCEPT ![w].minibatch_size = @ + 1]
        /\ \E hit \in BOOLEAN :
              /\ hit => queried
              /\ minibatch' = [minibatch EXCEPT ![w] =
                    Append(before, [NewEntry(o) EXCEPT
                                       !.nn_queried = queried,
                                       !.is_cache_hit = hit])]
              /\ computation' = [computation EXCEPT ![w] =
                    IF queried
                    THEN Append(@, [node |-> node, is_cache_hit |-> hit])
                    ELSE @]
              /\ IF kOutOfOrderEval /\ (~queried \/ hit)
                 THEN /\ pc' = [pc EXCEPT ![w] = "ooo_backup"]
                      /\ cursor' = [cursor EXCEPT ![w] = node]
                      /\ priors' = IF queried THEN priors \cup {node}
                                   ELSE priors
                 ELSE /\ pc' = [pc EXCEPT ![w] = "gather"]
                      /\ UNCHANGED <<cursor, priors>>

\* Variant: the collisions are not counted against their allowance.
CollisionNoLimit(w, o, before) ==
    /\ minibatch' = [minibatch EXCEPT ![w] = Append(before, NewEntry(o))]
    /\ pc' = [pc EXCEPT ![w] = "gather"]
    /\ gather' = [gather EXCEPT ![w].collisions_found = @ + 1]
    /\ UNCHANGED <<terminal, game_result, tb_hits, edges, priors, computation, cursor>>
\* What GatherMinibatch does with a collision: it touches no shared state,
\* and ends the gathering after too many of them.
Collision(w, o, before) ==
    /\ minibatch' = [minibatch EXCEPT ![w] = Append(before, NewEntry(o))]
    /\ pc' = [pc EXCEPT ![w] =
                IF gather[w].collisions_found + 1 > kAllowedNodeCollisions
                THEN "compute" ELSE "gather"]
    /\ gather' = [gather EXCEPT ![w].collisions_found = @ + 1]
    /\ UNCHANGED <<terminal, game_result, tb_hits, edges, priors, computation, cursor>>

\* One turn of the loop of GatherMinibatch: PickNodeToExtend (the whole
\* descent, under nodes_mutex_) and, unless it was a collision, ExtendNode.
\* When the descent has to set found_best_move_ it stops with nodes_mutex_
\* held, to take counters_mutex_.
PickNodeToExtend(w) ==
    /\ pc[w] = "gather"
    /\ GatherGoesOn(w)
    /\ WithinBudget
    /\ CanLock("nodes")
    /\ \E o \in Descend(Root, 1) :
          IF o.no_edge
          THEN /\ crashed' = TRUE
               /\ pc' = [pc EXCEPT ![w] = "crashed"]
               /\ Lock(w, "nodes")
               /\ UNCHANGED <<n_in_flight, terminal, game_result, tb_hits, edges, priors, minibatch,
                              computation, gather, cursor>>
          ELSE /\ n_in_flight' = [x \in Nodes |->
                     IF x \in o.path THEN n_in_flight[x] + 1
                     ELSE n_in_flight[x]]
               /\ UNCHANGED crashed
               /\ IF OnlyOneMovePossible
                  THEN /\ Lock(w, "nodes")
                       /\ minibatch' =
                             [minibatch EXCEPT ![w] = Append(@, NewEntry(o))]
                       /\ pc' = [pc EXCEPT ![w] = "found"]
                       /\ UNCHANGED <<terminal, game_result, tb_hits, edges, priors, computation,
                                      gather, cursor>>
                  ELSE /\ UNCHANGED held
                       /\ IF o.is_collision
                          THEN Collision(w, o, minibatch[w])
                          ELSE /\ minibatch' = [minibatch EXCEPT ![w] =
                                     Append(@, NewEntry(o))]
                               /\ pc' = [pc EXCEPT ![w] = "extend"]
                               /\ UNCHANGED <<terminal, game_result, tb_hits, edges, priors,
                                              computation, gather, cursor>>
    /\ UNCHANGED <<cfgVars, elapsed, n, counterVars, remaining_playouts,
                   stopVars, racy, bestmove_calls,
                   aborted, abort_preceded_callback, stop_called,
                   wait_returned, completed_depths, late_info>>

\* GatherMinibatch after a pick that is no collision: ExtendNode and what
\* follows it, with no lock held.
ExtendPicked(w) ==
    /\ pc[w] = "extend"
    /\ ExtendNode(w, Last(minibatch[w]), Front(minibatch[w]))
    /\ UNCHANGED <<cfgVars, elapsed, n, n_in_flight, counterVars,
                   remaining_playouts, stopVars, held, racy, histVars>>

\* PickNodeToExtend sets found_best_move_ under counters_mutex_, taken while
\* nodes_mutex_ is held, and returns.
SetFoundBestMove(w) ==
    /\ pc[w] = "found"
    /\ CanLock("counters")
    /\ found_best_move' = TRUE
    /\ Unlock(w)
    /\ LET o == Last(minibatch[w]) IN
          IF o.is_collision
          THEN Collision(w, o, Front(minibatch[w]))
          ELSE ExtendNode(w, o, Front(minibatch[w]))
    /\ UNCHANGED <<cfgVars, elapsed, n, n_in_flight, counterVars,
                   remaining_playouts, stop, responded_bestmove, best_move,
                   bonus_time_ms, best_move_edge, last_outputted, racy, histVars>>

\* Node::FinalizeScoreUpdate on one node, and the update of best_move_edge_
\* that DoBackupUpdateSingleNode makes after it.
Finalized(visits, node) == [visits EXCEPT ![node] = @ + 1]
Started(in_flight, node) == [in_flight EXCEPT ![node] = @ - 1]
BestMoveEdgeDue(visits, node) ==
    /\ GetParent(node) = Root
    /\ (IF best_move_edge = Null THEN 0 ELSE visits[best_move_edge])
          <= visits[node]
BestMoveEdgeAfter(visits, node) ==
    IF BestMoveEdgeDue(visits, node)
    THEN BestChildByVisits(Root, visits)
    ELSE {best_move_edge}
\* The same without nodes_mutex_: the assignment to best_move_edge_ is not
\* atomic with the visits it was computed from.  It lands at once (`now`),
\* or it is still on its way (`later`) while other threads go on and lands
\* before the worker finalizes the next node of its walk, the root.
BestMoveEdgeWrites(w, visits) ==
    IF racy[w].pending
    THEN {[now |-> racy[w].best_move_edge, pending |-> FALSE, later |-> Null]}
    ELSE {[now |-> b, pending |-> FALSE, later |-> Null] :
             b \in BestMoveEdgeAfter(visits, cursor[w])}
         \cup {[now |-> best_move_edge, pending |-> TRUE, later |-> b] :
                 b \in IF BestMoveEdgeDue(visits, cursor[w])
                       THEN BestChildByVisits(Root, visits) ELSE {}}

\* The out-of-order DoBackupUpdateSingleNode of GatherMinibatch, which holds
\* no lock: one node of the walk to the root at a time; after the root, the
\* counters are read ...
OutOfOrderBackup(w) ==
    /\ pc[w] = "ooo_backup"
    /\ n' = Finalized(n, cursor[w])
    /\ n_in_flight' = Started(n_in_flight, cursor[w])
    /\ \E write \in BestMoveEdgeWrites(w, n') :
          /\ best_move_edge' = write.now
          /\ IF cursor[w] = Root
             THEN /\ racy' = [racy EXCEPT ![w] =
                        [NoRacy EXCEPT !.total_playouts = total_playouts,
                                       !.cum_depth = cum_depth,
                                       !.max_depth = max_depth]]
                  /\ pc' = [pc EXCEPT ![w] = "ooo_counters"]
                  /\ UNCHANGED cursor
             ELSE /\ racy' = [racy EXCEPT ![w].pending = write.pending,
                                          ![w].best_move_edge = write.later]
                  /\ cursor' = [cursor EXCEPT ![w] = GetParent(@)]
                  /\ UNCHANGED pc
    /\ UNCHANGED <<cfgVars, elapsed, edges, terminal, game_result, tb_hits, priors, counterVars,
                   remaining_playouts, stop, found_best_move,
                   responded_bestmove, best_move, bonus_time_ms,
                   last_outputted, held, minibatch, computation, gather, histVars>>

\* ... and written back (++total_playouts_, cum_depth_ +=, max_depth_ =
\* max(...)); then the entry is removed from the minibatch.
OutOfOrderCounters(w) ==
    /\ pc[w] = "ooo_counters"
    /\ LET e == Last(minibatch[w]) IN
          /\ total_playouts' = racy[w].total_playouts + 1
          /\ cum_depth' = racy[w].cum_depth + e.depth
          /\ max_depth' = Max(racy[w].max_depth, e.depth)
          /\ completed_depths' = completed_depths \cup {e.depth}
          /\ computation' = [computation EXCEPT ![w] =
                IF e.nn_queried THEN PopCacheHit(@) ELSE @]
    /\ minibatch' = [minibatch EXCEPT ![w] = Front(@)]
    /\ gather' = [gather EXCEPT ![w].minibatch_size = @ - 1,
                                ![w].number_out_of_order = @ + 1]
    /\ racy' = [racy EXCEPT ![w] = NoRacy]
    /\ cursor' = [cursor EXCEPT ![w] = 0]
    /\ pc' = [pc EXCEPT ![w] = "gather"]
    /\ UNCHANGED <<cfgVars, elapsed, treeVars, remaining_playouts, stopVars,
                   held, bestmove_calls, aborted,
                   abort_preceded_callback, stop_called, wait_returned, crashed, late_info>>

\* MaybePrefetchIntoCache (nodes_mutex_ shared; it adds up to its budget of
\* cache misses to the computation), RunNNComputation and
\* FetchMinibatchResults, which assigns the priors of the queried nodes.
PrefetchBudget(w) ==
    IF CacheMisses(w) > 0 /\ CacheMisses(w) < kMaxPrefetchBatch
    THEN kMaxPrefetchBatch - CacheMisses(w) ELSE 0
RECURSIVE Prefetched(_)
Prefetched(k) ==
    IF k = 0 THEN <<>>
    ELSE Append(Prefetched(k - 1), [node |-> Null, is_cache_hit |-> FALSE])
\* Variant: the priors of the network are not stored.
NoPriorsFetched(w) == {}
\* The nodes whose edges FetchMinibatchResults gives their priors (SetP).
FetchedPriors(w) ==
    {minibatch[w][i].node : i \in
        {j \in 1..Len(minibatch[w]) : minibatch[w][j].nn_queried}}
Compute(w) ==
    /\ \/ pc[w] = "compute"
       \/ pc[w] = "gather" /\ ~(GatherGoesOn(w) /\ WithinBudget)
    /\ PrefetchBudget(w) > 0 => CanLock("nodes_shared")
    /\ \E k \in 0..PrefetchBudget(w) :
          computation' = [computation EXCEPT ![w] = @ \o Prefetched(k)]
    /\ priors' = priors \cup FetchedPriors(w)
    /\ gather' = [gather EXCEPT ![w] = NoGather]
    /\ pc' = [pc EXCEPT ![w] = "backup"]
    /\ UNCHANGED <<cfgVars, elapsed, n, n_in_flight, edges, terminal, game_result, tb_hits,
                   counterVars, remaining_playouts, stopVars, held, minibatch,
                   cursor, racy, histVars>>

RECURSIVE PathTo(_)
PathTo(node) ==
    IF node = Null THEN {} ELSE {node} \cup PathTo(GetParent(node))

\* DoBackupUpdateSingleNode on a collision: CancelScoreUpdate from the
\* parent of the collided node up to the root.
\* Variant: the walk starts at the collided node itself.
CancelledFromNode(e) == PathTo(e.node)
\* Variant: a collision is dropped without any CancelScoreUpdate.
CancelledNowhere(e) == {}
CancelledNodes(e) == PathTo(GetParent(e.node))

\* DoBackupUpdate takes nodes_mutex_ ...
DoBackupUpdateLock(w) ==
    /\ pc[w] = "backup"
    /\ CanLock("nodes")
    /\ IF minibatch[w] = <<>>
       THEN /\ pc' = [pc EXCEPT ![w] = "remaining"]
            /\ UNCHANGED <<held, cursor>>
       ELSE /\ Lock(w, "nodes")
            /\ pc' = [pc EXCEPT ![w] = "backup_entry"]
            /\ cursor' = [cursor EXCEPT ![w] = 1]
    /\ UNCHANGED <<cfgVars, elapsed, treeVars, counterVars, remaining_playouts,
                   stopVars, minibatch, computation, gather, racy, histVars>>

\* ... and runs DoBackupUpdateSingleNode on each entry of the minibatch.
DoBackupUpdateSingleNode(w) ==
    /\ pc[w] = "backup_entry"
    /\ LET e == minibatch[w][cursor[w]]
           path == PathTo(e.node)
           visits == [x \in Nodes |-> IF x \in path THEN n[x] + 1 ELSE n[x]]
           below_root == {x \in path : GetParent(x) = Root}
       IN  IF e.is_collision
           THEN /\ n_in_flight' = [x \in Nodes |->
                      IF x \in CancelledNodes(e) THEN n_in_flight[x] - 1
                      ELSE n_in_flight[x]]
                /\ UNCHANGED <<n, best_move_edge, counterVars,
                               completed_depths>>
           ELSE /\ n' = visits
                /\ n_in_flight' = [x \in Nodes |->
                      IF x \in path THEN n_in_flight[x] - 1
                      ELSE n_in_flight[x]]
                /\ best_move_edge' \in
                      IF below_root = {} THEN {best_move_edge}
                      ELSE BestMoveEdgeAfter(visits,
                                             CHOOSE x \in below_root : TRUE)
                /\ total_playouts' = total_playouts + 1
                /\ cum_depth' = cum_depth + e.depth
                /\ max_depth' = Max(max_depth, e.depth)
                /\ completed_depths' = completed_depths \cup {e.depth}
    /\ IF cursor[w] = Len(minibatch[w])
       THEN /\ Unlock(w)
            /\ pc' = [pc EXCEPT ![w] = "remaining"]
            /\ cursor' = [cursor EXCEPT ![w] = 0]
       ELSE /\ cursor' = [cursor EXCEPT ![w] = @ + 1]
            /\ UNCHANGED <<held, pc>>
    /\ UNCHANGED <<cfgVars, elapsed, edges, terminal, game_result, tb_hits, priors,
                   remaining_playouts, stop, found_best_move,
                   responded_bestmove, best_move, bonus_time_ms,
                   last_outputted, minibatch, computation, gather, racy, bestmove_calls, aborted,
                   abort_preceded_callback, stop_called, wait_returned, crashed, late_info>>
\* --------------------------------------------------------- UpdateCounters
\* Conversion of a quotient to an integer truncates toward zero.
TruncDiv(a, b) == IF a >= 0 THEN a \div b ELSE -((-a) \div b)

\* The candidates of UpdateRemainingMoves, each IntMax when it does not apply.
RemainingFromTime ==
    IF limits.time_ms >= 0 /\ elapsed > kSmartPruningToleranceMs
    THEN LET nps == (1000 * total_playouts + kSmartPruningToleranceNodes)
                        \div (elapsed - kSmartPruningToleranceMs) + 1
             remaining_time == limits.time_ms - elapsed
         IN  TruncDiv(TruncDiv(remaining_time * nps, kAggressiveTimePruning),
                      1000)
    ELSE IntMax
RemainingFromVisits ==
    IF limits.visits >= 0
    THEN limits.visits - total_playouts - initial_visits + kMiniBatchSize - 1
    ELSE IntMax
RemainingFromPlayouts ==
    IF limits.playouts >= 0
    THEN limits.visits - total_playouts + kMiniBatchSize + 1
    ELSE IntMax
\* Variant: the last statement, which raises the result to 1, left out.
RemainingUnclamped ==
    Min(IntMax, Min(RemainingFromTime,
                    Min(RemainingFromVisits, RemainingFromPlayouts)))
RemainingPlayouts ==
    Max(1, Min(IntMax, Min(RemainingFromTime,
                           Min(RemainingFromVisits, RemainingFromPlayouts))))

\* Variant: the estimate is made whatever futile-search-aversion is.
PruningNeverDisabled == FALSE
\* "if (kAggressiveTimePruning <= 0.0f) return;"
PruningDisabled == kAggressiveTimePruning <= 0

\* Search::UpdateRemainingMoves: nothing when smart pruning is off, else
\* under nodes_mutex_.
UpdateRemainingMoves(w) ==
    /\ pc[w] = "remaining"
    /\ IF PruningDisabled
       THEN UNCHANGED remaining_playouts
       ELSE /\ CanLock("nodes")
            /\ remaining_playouts' = RemainingPlayouts
    /\ pc' = [pc EXCEPT ![w] = "info1"]
    /\ UNCHANGED <<cfgVars, elapsed, treeVars, counterVars, stopVars, held,
                   workerVars, histVars>>

\* Search::MaybeOutputInfo: nodes_mutex_, then counters_mutex_, then the
\* body.  Whether an info is due when the best move edge is the one last
\* reported depends on the depths and the clock; the edge is recorded by
\* SendUciInfo.
MaybeOutputInfoLock1(w) ==
    /\ pc[w] = "info1"
    /\ CanLock("nodes")
    /\ Lock(w, "nodes")
    /\ pc' = [pc EXCEPT ![w] = "info2"]
    /\ UNCHANGED <<cfgVars, elapsed, treeVars, counterVars, remaining_playouts,
                   stopVars, workerVars, histVars>>
MaybeOutputInfoLock2(w) ==
    /\ pc[w] = "info2"
    /\ CanLock("counters")
    /\ Lock(w, "counters")
    /\ pc' = [pc EXCEPT ![w] = "info3"]
    /\ UNCHANGED <<cfgVars, elapsed, treeVars, counterVars, remaining_playouts,
                   stopVars, workerVars, histVars>>
MaybeOutputInfo(w) ==
    /\ pc[w] = "info3"
    /\ last_outputted' = IF OutputsInfo THEN best_move_edge ELSE last_outputted
    /\ late_info' = (late_info \/ (OutputsInfo /\ Responded))
    /\ Unlock(w)
    /\ pc' = [pc EXCEPT ![w] = "mts1"]
    /\ UNCHANGED <<cfgVars, elapsed, treeVars, counterVars, remaining_playouts,
                   stop, found_best_move, responded_bestmove, best_move,
                   bonus_time_ms, best_move_edge, workerVars,
                   bestmove_calls, aborted, abort_preceded_callback,
                   stop_called, wait_returned, completed_depths, crashed>>

\* MaybeTriggerStop as called by UpdateCounters; the iteration ends after it
\* (its minibatch and computation are dropped here rather than by the next
\* InitializeIteration).
WorkerTriggerLock1(w) == MTSLock(w, "mts1", 1, "mts2")
WorkerTriggerLock2(w) == MTSLock(w, "mts2", 2, "mts3")
WorkerTrigger(w) ==
    /\ MTSBody(w, "mts3", "loop")
    /\ minibatch' = [minibatch EXCEPT ![w] = <<>>]
    /\ computation' = [computation EXCEPT ![w] = <<>>]
    /\ UNCHANGED <<gather, cursor, racy>>

\* ------------------------------------------------------ time management
\* static_cast<int64_t> of a float: truncation toward zero.
RTrunc(a) == TruncDiv(a.num, a.den)

\* Variant: the guessed number of moves is used only when the go command
\* gave no positive movestogo.
GuessedOnlyWhenUnset(movestogo, guessed_movestogo) ==
    RLess(movestogo, FromInt(1))
\* The test of engine.cc line 162, on the movestogo already fixed by line 135.
UseGuessed(movestogo, guessed_movestogo) ==
    \/ ~RLess(FromInt(0), movestogo)
    \/ RLess(guessed_movestogo, movestogo)

\* Variant: slowmover always scales the time.
SlowmoverAlways(slowmover, this_move_time) == TRUE
\* The test of engine.cc lines 184-185.
SlowmoverApplies(slowmover, this_move_time) ==
    \/ RLess(slowmover, FromInt(1))
    \/ RLess(FromInt(kSmartPruningToleranceMs),
             RMul(this_move_time, slowmover))

\* Variant: the carry is kept after it was added.
BonusKept(bonus) == bonus
\* bonus_time_ms after a clock computation (engine.cc lines 190-194).
BonusAfterUse(bonus) == IF bonus > 0 THEN 0 ELSE bonus

\* Variant: the computed time is only kept from being negative.
FlooredOnly(this_move_time, time, move_overhead) ==
    Max(0, RTrunc(this_move_time))
\* The limit of engine.cc lines 197-199.
ClampToClock(this_move_time, time, move_overhead) ==
    Max(0, Min(RTrunc(this_move_time), time - move_overhead))

\* EngineController::PopulateSearchLimits for the side to move, given the
\* value the survival curve yields for the ply (guessed_movestogo >= 1: a sum
\* of positive terms divided by a positive one, plus 1), the options and the
\* carry.  The result holds the limits, the new carry and the intermediate
\* values.
PopulateSearchLimits(guessed_movestogo, params, options, bonus) ==
    LET time == params.time
        infinite == params.infinite \/ params.ponder
        visits == IF infinite THEN -1 ELSE params.nodes
        start == [NoComputation EXCEPT
                     !.ran = TRUE, !.params = params, !.options = options,
                     !.guessed_movestogo = guessed_movestogo,
                     !.bonus_before = bonus,
                     !.limits = [time_ms |-> params.movetime,
                                 visits |-> visits, infinite |-> infinite]]
    IN  IF infinite \/ time < 0
        THEN [computation |-> start, bonus_time_ms |-> bonus]
        ELSE
        LET increment == Max(0, params.increment)
            fixed == IF params.movestogo = 0 THEN FromInt(1)
                     ELSE FromInt(params.movestogo)
            slowmover == options.slowmover
            move_overhead == options.move_overhead
            movestogo == IF UseGuessed(fixed, guessed_movestogo)
                         THEN guessed_movestogo ELSE fixed
            natural ==
                RMax(FromInt(0),
                     RSub(RAdd(FromInt(time),
                               RMul(FromInt(increment),
                                    RSub(movestogo, FromInt(1)))),
                          FromInt(move_overhead)))
            total_moves_time == IF bonus > 0
                                THEN RSub(natural, FromInt(bonus))
                                ELSE natural
            split == RDiv(total_moves_time, movestogo)
            scaled == IF SlowmoverApplies(slowmover, split)
                      THEN RMul(split, slowmover) ELSE split
            this_move_time == IF bonus > 0
                              THEN RAdd(scaled, FromInt(bonus)) ELSE scaled
        IN  [computation |->
                [start EXCEPT
                    !.clock = TRUE, !.movestogo = movestogo,
                    !.split = split, !.scaled = scaled,
                    !.this_move_time = this_move_time,
                    !.limits.time_ms =
                        ClampToClock(this_move_time, time, move_overhead)],
             bonus_time_ms |-> BonusAfterUse(bonus)]

\* The inputs of the time computation that are tried.
ClockTimes == {-1, 0, 1000, 9000}
Increments == {-1, 500}
MovesToGoChoices == {-1, 0, 1, 40}
GuessedChoices == {Rat(5, 2), FromInt(30)}
SlowmoverChoices == {FromInt(0), Rat(1, 2), FromInt(1), FromInt(2)}
MoveOverheadChoices == {0, 100}
UnusedChoices == {0, 100, 800}
TimeParams ==
    {[NoParams EXCEPT !.time = t, !.increment = i, !.movestogo = m,
                      !.infinite = inf] :
        t \in ClockTimes, i \in Increments, m \in MovesToGoChoices,
        inf \in BOOLEAN}

\* What the search threads, the watchdog and the controller's calls on the
\* Search leave alone apart from the carry.
searchFrame == <<initial_visits, threads, limits, kOutOfOrderEval, kTemperature,
                 kAggressiveTimePruning, board, elapsed, treeVars, counterVars,
                 remaining_playouts, stop, found_best_move,
                 responded_bestmove, best_move, best_move_edge,
                 last_outputted, pc, held, workerVars, histVars>>

\* One time computation, for any go command and ply.
ComputeLimits ==
    \E params \in TimeParams, guessed_movestogo \in GuessedChoices :
        LET r == PopulateSearchLimits(guessed_movestogo, params, options_,
                                      bonus_time_ms)
        IN  /\ tm' = r.computation
            /\ bonus_time_ms' = r.bonus_time_ms
            /\ UNCHANGED <<searchFrame, options_, cache_, tree_,
                           current_position_, go_params_, search_, network_,
                           network_path_, last_call>>

\* The search run with the limits just computed finds its best move before
\* its time is up and stores the time it did not use (MaybeTriggerStop).
ElapsedChoices(time_ms) ==
    {time_ms - unused : unused \in {u \in UnusedChoices : u <= time_ms}}
        \cup {Max(0, time_ms) + 1}
StoreBonus ==
    /\ tm.ran
    /\ \E time_since_start \in ElapsedChoices(tm.limits.time_ms) :
          bonus_time_ms' = UnusedTime(tm.limits.time_ms, time_since_start)
    /\ UNCHANGED <<searchFrame, engineVars>>

\* The time computation on its own: the options are any of those tried, and
\* no search is followed.
TimeInit ==
    /\ SearchStart
    /\ threads = 1 /\ limits.visits = 0 /\ limits.searchmoves = {}
    /\ kOutOfOrderEval = FALSE /\ board = PlainBoard
    /\ ControllerStart
    /\ \E slowmover \in SlowmoverChoices,
          move_overhead \in MoveOverheadChoices :
          options_ = [DefaultOptions EXCEPT !.slowmover = slowmover,
                                            !.move_overhead = move_overhead]
TimeNext == ComputeLimits \/ StoreBonus
TimeSpec == TimeInit /\ [][TimeNext]_vars

\* ---------------------------------------------------- the engine controller
\* A position is named by the length of its move list plus one (1: no
\* moves); Null is no position and no tree.
Positions == {1, 2}
WeightsChoices == {"good", "bad"}
\* LoadWeightsFromFile and the creation of the network succeed or end in an
\* exception.
Loadable(weights) == weights = "good"

\* EngineController::UpdateTBAndNetwork, as to the network: what it leaves in
\* network_path_ (backend_ and backend_options_ go with it) and network_,
\* and whether it ends by the exception of a failed load.  The tablebases
\* are left out.
UpdateTBAndNetwork ==
    IF options_.weights = network_path_
    THEN [network_path_ |-> network_path_, network_ |-> network_,
          threw |-> FALSE]
    ELSE IF Loadable(options_.weights)
    THEN [network_path_ |-> options_.weights, network_ |-> options_.weights,
          threw |-> FALSE]
    ELSE [network_path_ |-> options_.weights, network_ |-> network_,
          threw |-> TRUE]

Called(op, threw) ==
    [op |-> op, threw |-> threw, loadable |-> Loadable(options_.weights)]

\* The option weights is set (the uci command setoption).
SetOption ==
    /\ \E weights \in WeightsChoices :
          options_' = [options_ EXCEPT !.weights = weights]
    /\ last_call' = Called("SetOption", FALSE)
    /\ UNCHANGED <<searchFrame, bonus_time_ms, cache_, tree_,
                   current_position_, go_params_, search_, network_,
                   network_path_, tm>>

\* EngineController::NewGame.
NewGame ==
    LET u == UpdateTBAndNetwork
    IN  /\ cache_' = 0
        /\ search_' = NoSearch
        /\ tree_' = Null
        /\ current_position_' = Null
        /\ network_path_' = u.network_path_
        /\ network_' = u.network_
        /\ last_call' = Called("NewGame", u.threw)
        /\ UNCHANGED <<searchFrame, bonus_time_ms, options_, go_params_, tm>>

\* EngineController::SetPosition.
SetPosition ==
    /\ \E position \in Positions : current_position_' = position
    /\ search_' = NoSearch
    /\ last_call' = Called("SetPosition", FALSE)
    /\ UNCHANGED <<searchFrame, bonus_time_ms, options_, cache_, tree_,
                   go_params_, network_, network_path_, tm>>

\* Variant: every search starts on an empty cache.
CacheCleared(cache) == 0
\* The cache handed to a new Search: "&cache_".
CacheKept(cache) == cache

\* The position Go sets the tree up with, Null when it calls no
\* SetupPosition.
SetupFor(params) ==
    IF current_position_ # Null
    THEN IF params.ponder /\ current_position_ > 1
         THEN current_position_ - 1
         ELSE current_position_
    ELSE IF tree_ = Null THEN 1 ELSE Null

\* EngineController::Go with SetupPosition, PopulateSearchLimits, the new
\* Search and StartThreads; an exception of UpdateTBAndNetwork ends it in
\* SetupPosition.
GoWith(op, params) ==
    LET position == SetupFor(params)
        u == IF position # Null THEN UpdateTBAndNetwork
             ELSE [network_path_ |-> network_path_, network_ |-> network_,
                   threw |-> FALSE]
    IN  /\ go_params_' = params
        /\ tree_' = IF position # Null THEN position ELSE tree_
        /\ network_path_' = u.network_path_
        /\ network_' = u.network_
        /\ last_call' = Called(op, u.threw)
        /\ cache_' = CacheKept(cache_)
        /\ IF u.threw
           THEN /\ search_' = NoSearch
                /\ UNCHANGED <<bonus_time_ms, tm>>
           ELSE \E guessed_movestogo \in GuessedChoices :
                   LET r == PopulateSearchLimits(guessed_movestogo, params,
                                                 options_, bonus_time_ms)
                   IN  /\ tm' = r.computation
                       /\ bonus_time_ms' = r.bonus_time_ms
                       /\ search_' =
                             [created |-> TRUE, network |-> u.network_,
                              threads |-> options_.threads,
                              time_ms |-> r.computation.limits.time_ms]
        /\ UNCHANGED <<searchFrame, options_, current_position_>>

EngineParams ==
    { [NoParams EXCEPT !.infinite = TRUE],
      [NoParams EXCEPT !.time = 1000],
      [NoParams EXCEPT !.time = 1000, !.ponder = TRUE] }
Go == \E params \in EngineParams : GoWith("Go", params)

\* EngineController::PonderHit.
PonderHit == GoWith("PonderHit", [go_params_ EXCEPT !.ponder = FALSE])

\* EngineController::Stop: Search::Stop and Search::Wait, which joins the
\* threads.
EngineStop ==
    /\ search_' = IF search_.created THEN [search_ EXCEPT !.threads = 0]
                  ELSE search_
    /\ last_call' = Called("Stop", FALSE)
    /\ UNCHANGED <<searchFrame, bonus_time_ms, options_, cache_, tree_,
                   current_position_, go_params_, network_, network_path_,
                   tm>>

\* A worker of the running search evaluates a position: the result goes
\* into the cache, which drops an old entry when it is full.
SearchFillsCache ==
    /\ search_.created /\ search_.threads > 0
    /\ cache_' = Min(MaxCacheEntries, cache_ + 1)
    /\ UNCHANGED <<searchFrame, bonus_time_ms, options_, tree_,
                   current_position_, go_params_, search_, network_,
                   network_path_, tm, last_call>>

\* The running search responds with its best move and its threads end; it
\* stores its unused time when it found the best move early.
SearchDelivers ==
    /\ search_.created /\ search_.threads > 0
    /\ search_' = [search_ EXCEPT !.threads = 0]
    /\ \/ UNCHANGED bonus_time_ms
       \/ \E time_since_start \in ElapsedChoices(search_.time_ms) :
             bonus_time_ms' = UnusedTime(search_.time_ms, time_since_start)
    /\ UNCHANGED <<searchFrame, options_, cache_, tree_, current_position_,
                   go_params_, network_, network_path_, tm, last_call>>

\* The controller and the searches it starts; the threads of a search are
\* not followed.
EngineInit ==
    /\ SearchStart
    /\ threads = 1 /\ limits.visits = 0 /\ limits.searchmoves = {}
    /\ kOutOfOrderEval = FALSE /\ board = PlainBoard
    /\ EngineStart
EngineNext ==
    \/ SetOption
    \/ NewGame
    \/ SetPosition
    \/ Go
    \/ PonderHit
    \/ EngineStop
    \/ SearchFillsCache
    \/ SearchDelivers
EngineSpec == EngineInit /\ [][EngineNext]_vars

\* ------------------------------------------------------- the specification
WorkerNext(w) ==
    \/ WorkerLoop(w)
    \/ PickNodeToExtend(w)
    \/ ExtendPicked(w)
    \/ SetFoundBestMove(w)
    \/ OutOfOrderBackup(w)
    \/ OutOfOrderCounters(w)
    \/ Compute(w)
    \/ DoBackupUpdateLock(w)
    \/ DoBackupUpdateSingleNode(w)
    \/ UpdateRemainingMoves(w)
    \/ MaybeOutputInfoLock1(w)
    \/ MaybeOutputInfoLock2(w)
    \/ MaybeOutputInfo(w)
    \/ WorkerTriggerLock1(w)
    \/ WorkerTriggerLock2(w)
    \/ WorkerTrigger(w)

WatchdogNext ==
    \/ WatchdogLoop
    \/ WatchdogTriggerLock1
    \/ WatchdogTriggerLock2
    \/ WatchdogTrigger
    \/ WatchdogFinalLock1
    \/ WatchdogFinalLock2
    \/ WatchdogFinal

ControllerNext ==
    \/ Stop
    \/ Abort
    \/ Wait
    \/ GetBestMoveLock1
    \/ GetBestMoveLock2
    \/ GetBestMove

Next ==
    \/ \E w \in Workers : WorkerNext(w)
    \/ WatchdogNext
    \/ ControllerNext
    \/ Tick

Spec == Init /\ [][Next]_vars

\* The scheduler runs every search thread again and again, and a thread that
\* finds a mutex free again and again gets it.  Of the controller it is only
\* assumed that a GetBestMove it has begun returns: it may never call Stop.
Fairness ==
    /\ SF_vars(WatchdogNext)
    /\ \A w \in Workers : SF_vars(WorkerNext(w))
    /\ SF_vars(GetBestMoveLock2 \/ GetBestMove)
\* The searches that can reach a limit: those of the configurations with one
\* worker.
FairInit == Init /\ threads = 1
FairSpec == FairInit /\ [][Next]_vars /\ Fairness

\* The searches whose cancellation is followed to its end: those on a
\* fresh tree of the plain position, with one worker evaluating out of
\* order or with all the workers evaluating in order; with a caller that,
\* once in Wait, stays in its join until the threads have exited, and that
\* does not ask for the best move.
CancelInit ==
    /\ Init
    /\ board = PlainBoard /\ initial_visits = 0
    /\ kOutOfOrderEval = (threads = 1)
CancelNext ==
    \/ \E w \in Workers : WorkerNext(w)
    \/ WatchdogNext
    \/ Stop
    \/ Abort
    \/ Wait
    \/ Tick
CancelSpec ==
    /\ CancelInit /\ [][CancelNext]_vars
    /\ SF_vars(WatchdogNext)
    /\ \A w \in Workers : SF_vars(WorkerNext(w))
    /\ WF_vars(Wait)

\* The searches EngineController::Go starts with one worker: the limits are
\* those PopulateSearchLimits computes from the go command (infinite,
\* ponder, nodes, and either the clock or a movetime), with or without a
\* single search move.
GoChoices ==
    {[NoParams EXCEPT !.infinite = i, !.ponder = p, !.nodes = nd,
                      !.time = t[1], !.movetime = t[2]] :
        i \in BOOLEAN, p \in BOOLEAN, nd \in {-1, MaxPlayouts},
        t \in {<<-1, -1>>, <<1000, -1>>, <<-1, TickMs>>}}
SearchOfGo(params, s, ooo) ==
    LET r == PopulateSearchLimits(FromInt(30), params, DefaultOptions, 0)
        l == r.computation.limits
    IN  /\ Constructed(Config(1, [NoLimits EXCEPT !.visits = l.visits,
                                                   !.time_ms = l.time_ms,
                                                   !.infinite = l.infinite],
                              s, ooo, FALSE, 1))
        /\ tm = r.computation
        /\ go_params_ = params
        /\ options_ = DefaultOptions
        /\ cache_ = 0 /\ tree_ = Null /\ current_position_ = Null
        /\ search_ = NoSearch /\ network_ = "none" /\ network_path_ = ""
        /\ last_call = NoCall
GoInit ==
    \E params \in GoChoices, s \in SearchMovesChoices, ooo \in BOOLEAN :
        SearchOfGo(params, s, ooo)
GoSpec == GoInit /\ [][Next]_vars

\* The searches with a visits limit, left to themselves: no call of the
\* controller, no clock.
VisitsInit == (\E c \in VisitsConfigs : Constructed(c)) /\ EngineStart
VisitsNext == (\E w \in Workers : WorkerNext(w)) \/ WatchdogNext
VisitsSpec == VisitsInit /\ [][VisitsNext]_vars
\* ------------------------------------------------------------- properties
\* A thread is in the body of MaybeTriggerStop, both locks held.
InTriggerStop(t) == pc[t] \in {"mts3", "fin3"}
\* The step in which a thread runs the body of MaybeTriggerStop.
TriggerStopStep(t) == InTriggerStop(t) /\ pc'[t] # pc[t]
\* Every worker thread has exited.
Quiescent == \A w \in Workers : pc[w] \in {"done", "unused"}

\* C1: the best-move callback is invoked at most once per search, and once
\* responded_bestmove is set no later step (no later MaybeTriggerStop)
\* invokes it.
C1_CallbackAtMostOnce ==
    [][/\ bestmove_calls' <= 1
       /\ responded_bestmove => bestmove_calls' = bestmove_calls]_vars
\* The callback was made and a later MaybeTriggerStop is in its body.
C1_Witness ==
    /\ bestmove_calls = 1
    /\ responded_bestmove
    /\ ~aborted
    /\ \E t \in SearchThreads : InTriggerStop(t)

\* C3: when Abort is called before the callback was made, the callback is
\* never made.
C3_NoCallbackAfterAbort == abort_preceded_callback => bestmove_calls = 0
\* Aborted before any callback, playouts done, and the watchdog has run its
\* last MaybeTriggerStop.
C3_Witness ==
    /\ abort_preceded_callback
    /\ total_playouts > 0
    /\ pc[Watchdog] = "done"
    /\ wait_returned

\* C4: while total_playouts is 0 MaybeTriggerStop neither sets stop nor
\* makes the callback, also when a limit is already reached or
\* found_best_move is set.
C4_NoStopBeforeFirstPlayout ==
    [][\A t \in SearchThreads :
          TriggerStopStep(t) /\ total_playouts = 0
             => stop' = stop /\ bestmove_calls' = bestmove_calls
                /\ responded_bestmove' = responded_bestmove]_vars
\* A limit was reached from the start, no playout completed, and the
\* watchdog has run MaybeTriggerStop for the last time without a callback.
C4_Witness ==
    /\ LimitReached
    /\ total_playouts = 0
    /\ pc[Watchdog] = "done"
    /\ ~aborted
    /\ bestmove_calls = 0

\* C6: when every worker has exited, n_in_flight is 0 on every node.
C6_QuiescentNothingInFlight ==
    Quiescent => \A x \in Nodes : n_in_flight[x] = 0
\* Both workers have exited after a search that visited a root child.
C6_Witness ==
    /\ Quiescent
    /\ threads = NumWorkers
    /\ n[Root] >= 2
    /\ \E c \in EdgesOf(Root) : n[c] > 0

\* C7: with a non-empty searchmoves, the root children outside it keep
\* n = 0 and n_in_flight = 0.
C7_OnlySearchMovesVisited ==
    limits.searchmoves # {} =>
       \A c \in LegalMoves(Root) \ limits.searchmoves :
          n[c] = 0 /\ n_in_flight[c] = 0
\* A restricted search has visited its move, and the root has another one.
C7_Witness ==
    /\ limits.searchmoves # {}
    /\ EdgesOf(Root) \ limits.searchmoves # {}
    /\ \E c \in limits.searchmoves : n[c] > 0
\* C2: a search that was stopped (or reached a limit) and never aborted has
\* had its callback made exactly once by the time Wait returns, also when
\* Stop arrives before any playout has completed.
C2_StoppedSearchReportsOnce ==
    wait_returned /\ ~aborted => bestmove_calls = 1

\* The step in which GetBestMove returns; what it returns is
\* GetBestMoveInternal of the state it runs in.
GetBestMoveReturns == pc[Controller] = "gbm3" /\ pc'[Controller] = "idle"
\* The callback has delivered the only search move.
CallbackDeliversSearchMove ==
    \A m \in LegalMoves(Root) :
       limits.searchmoves = {m} /\ bestmove_calls > 0 => best_move = m

C9_MaxDepthCoversBackups == \A d \in completed_depths : max_depth >= d

\* The lock a thread's next step has to acquire ("none" when it needs none).
Requested(t) ==
    IF t = Watchdog
    THEN CASE pc[t] = "wd_loop" -> "counters"
           [] pc[t] \in {"mts1", "fin1"} -> MaybeTriggerStopLockOrder[1]
           [] pc[t] \in {"mts2", "fin2"} -> MaybeTriggerStopLockOrder[2]
           [] OTHER -> "none"
    ELSE IF t = Controller
    THEN CASE pc[t] = "gbm2" -> "counters"
           [] OTHER -> "none"
    ELSE CASE pc[t] \in {"loop", "found", "info2"} -> "counters"
           [] pc[t] = "gather" /\ GatherGoesOn(t) /\ WithinBudget -> "nodes"
           [] pc[t] \in {"backup", "info1"} -> "nodes"
           [] pc[t] = "remaining" /\ kAggressiveTimePruning > 0 -> "nodes"
           [] pc[t] = "mts1" -> MaybeTriggerStopLockOrder[1]
           [] pc[t] = "mts2" -> MaybeTriggerStopLockOrder[2]
           [] OTHER -> "none"
IsNodesLock(l) == l \in {"nodes", "nodes_shared"}
\* Thread t cannot take the lock it requests because of a lock u holds.
BlockedBy(t, u) ==
    /\ t # u
    /\ \/ Requested(t) = "counters" /\ Holds(u, "counters")
       \/ Requested(t) = "nodes"
            /\ (Holds(u, "nodes") \/ Holds(u, "nodes_shared"))
       \/ Requested(t) = "nodes_shared" /\ Holds(u, "nodes")

\* C10: the two locks are taken in the order nodes_mutex_, counters_mutex_:
\* no thread requests nodes_mutex_ while holding counters_mutex_, no thread
\* holds them in the other order, and no two threads wait for each other.
C10_LockOrder ==
    /\ \A t \in Threads :
          /\ ~(Holds(t, "counters") /\ IsNodesLock(Requested(t)))
          /\ \A i, j \in 1..Len(held[t]) :
                held[t][i] = "counters" /\ IsNodesLock(held[t][j]) => j < i
    /\ \A t, u \in Threads : ~(BlockedBy(t, u) /\ BlockedBy(u, t))
\* A thread holds nodes_mutex_ and counters_mutex_, taken in this order,
\* while another waits for nodes_mutex_ and a third for counters_mutex_.
C10_Witness ==
    \E t, u, v \in Threads :
       /\ held[t] = <<"nodes", "counters">>
       /\ BlockedBy(u, t) /\ Requested(u) = "nodes"
       /\ BlockedBy(v, t) /\ Requested(v) = "counters"
\* C5: once total_playouts > 0 and a finite limit is reached, the next
\* MaybeTriggerStop sets stop and reports, and under fair scheduling the
\* best move is delivered without any call of Stop (unless the search is
\* aborted first).
C5_LimitStopsSearch ==
    /\ [][\A t \in SearchThreads :
             /\ TriggerStopStep(t)
             /\ total_playouts > 0
             /\ LimitReached
             /\ ~responded_bestmove
             => stop' /\ bestmove_calls' = 1]_vars
    /\ (total_playouts > 0 /\ LimitReached) ~> (bestmove_calls = 1 \/ aborted)
\* A limit was reached and the best move delivered, with no Stop and no
\* Abort.
C5_Witness ==
    /\ LimitReached
    /\ total_playouts > 0
    /\ bestmove_calls = 1
    /\ stop
    /\ ~stop_called
    /\ ~aborted

\* C11: every time computation on the clock path (the go is neither infinite
\* nor a ponder, and gives the mover's clock time >= 0) yields a limit with
\* 0 <= time_ms <= max(0, time - move_overhead), whatever slowmover,
\* movestogo, increment and carried bonus are.
C11_LimitWithinClock ==
    (tm.ran /\ tm.clock) =>
        /\ 0 <= tm.limits.time_ms
        /\ tm.limits.time_ms <=
              Max(0, tm.params.time - tm.options.move_overhead)
\* A carried bonus made the computed time exceed what the clock allows, and
\* the limit is what the clock allows.
C11_Witness ==
    /\ tm.ran /\ tm.clock /\ tm.bonus_before > 0
    /\ RTrunc(tm.this_move_time) >
          tm.params.time - tm.options.move_overhead
    /\ tm.limits.time_ms = tm.params.time - tm.options.move_overhead
    /\ tm.limits.time_ms > 0

\* The step in which the best move callback is invoked.
DeliversBestMove == bestmove_calls' = bestmove_calls + 1
\* C12: a search writes bonus_time_ms only in the step that delivers its best
\* move with found_best_move true, and then writes
\* max(0, time_ms - elapsed), which is not negative; every other step (a
\* delivery after Stop() or a limit without found_best_move, an Abort, any
\* step of a worker) leaves bonus_time_ms unchanged.
C12_BonusWrittenOnlyWithBestMoveFound ==
    [][/\ (DeliversBestMove /\ found_best_move) =>
             /\ bonus_time_ms' = Max(0, limits.time_ms - elapsed)
             /\ bonus_time_ms' >= 0
       /\ ~(DeliversBestMove /\ found_best_move) =>
             bonus_time_ms' = bonus_time_ms]_vars
\* A search with a time limit delivered its best move early because only one
\* move was possible, and stored the time left.
C12_Witness ==
    /\ bestmove_calls = 1 /\ found_best_move /\ ~aborted
    /\ limits.time_ms > 0
    /\ bonus_time_ms = limits.time_ms - elapsed
    /\ bonus_time_ms > 0

\* C13: a carried bonus is consumed by exactly one time computation.  A run
\* of PopulateSearchLimits on the clock path with bonus_time_ms > 0 adds the
\* bonus once to this_move_time (the time after the slowmover step plus the
\* bonus) and leaves bonus_time_ms = 0; after any run on the clock path no
\* bonus is left for the next one; a run for an infinite go, a ponder or a
\* go without clock time leaves bonus_time_ms unchanged.  (A step that
\* changes tm is a run of PopulateSearchLimits.)
C13_BonusConsumedOnce ==
    [][tm' # tm =>
          IF tm'.clock
          THEN /\ tm'.bonus_before = bonus_time_ms
               /\ bonus_time_ms' <= 0
               /\ bonus_time_ms > 0 =>
                     /\ bonus_time_ms' = 0
                     /\ tm'.this_move_time =
                           RAdd(tm'.scaled, FromInt(bonus_time_ms))
               /\ bonus_time_ms <= 0 =>
                     /\ bonus_time_ms' = bonus_time_ms
                     /\ tm'.this_move_time = tm'.scaled
          ELSE bonus_time_ms' = bonus_time_ms]_vars
\* A time computation on the clock path has used a positive bonus.
C13_Witness ==
    /\ tm.ran /\ tm.clock /\ tm.bonus_before > 0
    /\ bonus_time_ms = 0
    /\ tm.this_move_time = RAdd(tm.scaled, FromInt(tm.bonus_before))
    /\ RLess(tm.scaled, tm.this_move_time)

\* this_move_time as the last computation would have found it without a
\* carried bonus, all its other inputs being the same.
ThisMoveTimeWithoutBonus ==
    PopulateSearchLimits(tm.guessed_movestogo, tm.params, tm.options,
                         0).computation.this_move_time
\* C14: for identical clock inputs (time, increment, movestogo,
\* move_overhead, slowmover, ply), the this_move_time computed with a carried
\* bonus_time_ms > 0 exceeds the this_move_time computed with no bonus.
C14_BonusIncreasesAllotment ==
    (tm.ran /\ tm.clock /\ tm.bonus_before > 0) =>
        RLess(ThisMoveTimeWithoutBonus, tm.this_move_time)

\* C15: in the time computation, whenever the movestogo of the go command is
\* <= 0 (zero included) or the guessed number of remaining moves is smaller
\* than it, the guessed value is the one that divides the total time.
C15_GuessedUsedWhenUnsetOrSmaller ==
    (/\ tm.ran /\ tm.clock
     /\ \/ tm.params.movestogo <= 0
        \/ RLess(tm.guessed_movestogo, FromInt(tm.params.movestogo))) =>
        tm.movestogo = tm.guessed_movestogo
\* C15 as the code has it: the guessed value divides the total time exactly
\* when the movestogo of the go command is negative (not given) or larger
\* than the guess; a movestogo of 0 is read as 1 and divides the time as 1,
\* and any other movestogo not above the guess is used as given.
C15_GuessedUsedWhenNegativeOrSmaller ==
    (tm.ran /\ tm.clock) =>
        /\ (\/ tm.params.movestogo < 0
            \/ RLess(tm.guessed_movestogo, FromInt(tm.params.movestogo))) =>
              tm.movestogo = tm.guessed_movestogo
        /\ tm.params.movestogo = 0 => tm.movestogo = FromInt(1)
        /\ (/\ tm.params.movestogo > 0
            /\ ~RLess(tm.guessed_movestogo, FromInt(tm.params.movestogo))) =>
              tm.movestogo = FromInt(tm.params.movestogo)
\* A go with a movestogo above the guess had its time divided by the guess.
C15_Witness ==
    /\ tm.ran /\ tm.clock /\ tm.params.movestogo > 0
    /\ RLess(tm.guessed_movestogo, FromInt(tm.params.movestogo))
    /\ tm.movestogo = tm.guessed_movestogo
    /\ tm.bonus_before <= 0 /\ tm.params.time > 0
    /\ RMul(tm.split, tm.guessed_movestogo) =
          RAdd(FromInt(tm.params.time - tm.options.move_overhead),
               RMul(FromInt(Max(0, tm.params.increment)),
                    RSub(tm.guessed_movestogo, FromInt(1))))

\* this_move_time * slowmover of the last computation, and whether it is
\* within the 200 ms threshold.
SlowedTime == RMul(tm.split, tm.options.slowmover)
WithinThreshold == ~RLess(FromInt(kSmartPruningToleranceMs), SlowedTime)
\* C16: for every slowmover in [0,100] and every this_move_time, if
\* this_move_time * slowmover <= 200 ms the slowmover multiplier is not
\* applied to this_move_time.
C16_NoSlowmoverWithinThreshold ==
    (tm.ran /\ tm.clock /\ WithinThreshold) => tm.scaled = tm.split
\* C16 as the code has it: a slowmover below 1 is always applied, also when
\* the product is within 200 ms; a slowmover of 1 or more is applied when
\* the product exceeds 200 ms and not applied when it does not.
C16_SlowmoverAppliedBelowOneOrAboveThreshold ==
    (tm.ran /\ tm.clock) =>
        /\ RLess(tm.options.slowmover, FromInt(1)) => tm.scaled = SlowedTime
        /\ (~RLess(tm.options.slowmover, FromInt(1)) /\ WithinThreshold) =>
              tm.scaled = tm.split
        /\ ~WithinThreshold => tm.scaled = SlowedTime
\* A slowmover above 1 was left out because the product is within 200 ms.
C16_Witness ==
    /\ tm.ran /\ tm.clock /\ WithinThreshold
    /\ RLess(FromInt(1), tm.options.slowmover)
    /\ RLess(FromInt(0), tm.split)
    /\ tm.scaled = tm.split /\ tm.scaled # SlowedTime

\* ExtendNode has been run on the root: a descent has picked it.
RootExtended ==
    /\ n[Root] + n_in_flight[Root] > 0
    /\ \A w \in Workers :
          ~(pc[w] = "extend" /\ Last(minibatch[w]).node = Root)
\* C17: the draw rules and the tablebase never make the root terminal.
\* ExtendNode makes the root terminal only when it has no legal moves; with
\* insufficient material, 100 plies without capture or pawn move, a
\* repetition or a tablebase position at the root, the root still gets its
\* edges, one for each legal move, so that a move can be produced.  Any
\* other node that was made terminal has no legal moves or falls under a
\* rule.
C17_RootNotTerminalByRule ==
    /\ IsTerminal(Root) => LegalMoves(Root) = {}
    /\ (RootExtended /\ LegalMoves(Root) # {}) =>
          /\ HasChildren(Root) /\ ~IsTerminal(Root)
          /\ EdgesOf(Root) = LegalMoves(Root)
    /\ \A node \in terminal :
          LegalMoves(node) = {} \/ DrawByRule \/ TablebaseHit
\* The root falls under a draw rule or the tablebase, and has been extended
\* and visited.
C17_Witness ==
    /\ DrawByRule \/ TablebaseHit
    /\ HasChildren(Root) /\ ~IsTerminal(Root) /\ n[Root] > 0

\* C20: with futile-search-aversion = 0 smart pruning is disabled:
\* remaining_playouts keeps the value it was constructed with, whatever
\* UpdateRemainingMoves is called after, and no child of the root is left
\* out of the selection for its visit deficit to the best-move edge.
C20_NoPruningWithoutAversion ==
    kAggressiveTimePruning = 0 =>
        /\ remaining_playouts = IntMax
        /\ \A child \in EdgesOf(Root) : NotPruned(child)
        /\ RootCandidates = {c \in EdgesOf(Root) : SearchMoveAllowed(c)}
\* Without aversion and with a visits limit, a worker is past
\* UpdateRemainingMoves and a root child is behind the best-move edge.
C20_Witness ==
    /\ kAggressiveTimePruning = 0 /\ limits.visits >= 0
    /\ \E w \in Workers : pc[w] \in {"info1", "info2", "info3"}
    /\ total_playouts > 1
    /\ best_move_edge # Null
    /\ \E child \in EdgesOf(Root) :
          n[child] < n[best_move_edge] /\ child \in RootCandidates

\* C18: the tree and the cache persist across the searches of a game.  Of
\* the controller's operations only NewGame clears the cache or discards the
\* tree: a step that leaves fewer entries in the cache, or no tree where
\* there was one, is a NewGame; SetPosition, Go, PonderHit and Stop keep the
\* entries and the tree object; SetPosition changes nothing but the recorded
\* position and the search, which it destroys.
C18_OnlyNewGameClears ==
    [][/\ (cache_' < cache_ \/ (tree_ # Null /\ tree_' = Null)) =>
             last_call'.op = "NewGame"
       /\ last_call'.op \in {"SetPosition", "Go", "PonderHit", "Stop"} =>
             /\ cache_' >= cache_
             /\ tree_ # Null => tree_' # Null
       /\ last_call'.op = "SetPosition" =>
             /\ cache_' = cache_ /\ tree_' = tree_
             /\ search_' = NoSearch
             /\ current_position_' \in Positions
             /\ UNCHANGED <<bonus_time_ms, options_, go_params_, network_,
                            network_path_, tm>>]_vars
\* After a search has filled the cache, SetPosition was called: the entries
\* and the tree are still there, the search is not.
C18_Witness ==
    /\ last_call.op = "SetPosition"
    /\ cache_ > 0 /\ tree_ # Null /\ tm.ran
    /\ search_ = NoSearch

\* C19: a weights load failure aborts the creation of the search: after
\* every Go made while the configured weights cannot be loaded, the first
\* and every later one with the options unchanged, there is no Search and
\* no search thread.
C19_NoSearchWithoutWeights ==
    (last_call.op = "Go" /\ ~last_call.loadable) =>
        (~search_.created /\ search_.threads = 0)

\* ------------------------------------------------------ the backups (C21..)
\* A step that is (part of) a backup: it finalizes or cancels a score update,
\* assigns best_move_edge_, or updates one of the three counters.
BackupStep ==
    \/ n' # n
    \/ \E x \in Nodes : n_in_flight'[x] < n_in_flight[x]
    \/ best_move_edge' # best_move_edge
    \/ counterVars' # counterVars

\* C21: every backup is done under the tree lock: each FinalizeScoreUpdate or
\* CancelScoreUpdate, each assignment of best_move_edge_ and each update of
\* total_playouts_, cum_depth_ and max_depth_ is made by a thread that holds
\* nodes_mutex_ exclusively, the single-node backups of the minibatch
\* gathering with out-of-order evaluation included.
C21_BackupsUnderTreeLock ==
    [][BackupStep => \E t \in SearchThreads : Holds(t, "nodes")]_vars

\* ------------------------------------------------- the final info (C22)
\* Some child of the root has been backed up.
RootChildVisited == \E c \in EdgesOf(Root) : n[c] > 0

EntriesOn(x, collision) ==
    {wi \in Workers \X (1..kMiniBatchSize + kAllowedNodeCollisions + 1) :
        /\ wi[2] <= Len(minibatch[wi[1]])
        /\ minibatch[wi[1]][wi[2]].node = x
        /\ minibatch[wi[1]][wi[2]].is_collision = collision}

\* C23: each node is extended at most once over the whole search, across all
\* workers: ExtendNode runs on a node only while it has n = 0, no edges and
\* is not terminal, and the node is then the one picked entry of one worker
\* until it is backed up (a second pick of it, by any worker, is a
\* collision); edges are created once and are never removed; a node is made
\* terminal once, and only when it has no edges.
C23_ExtendedAtMostOnce ==
    /\ [](\A x \in Nodes :
            /\ ~(x \in edges /\ x \in terminal)
            /\ n[x] = 0 => Cardinality(EntriesOn(x, FALSE)) <= 1
            /\ (n[x] = 0 /\ (x \in edges \/ x \in terminal)) =>
                  (Cardinality(EntriesOn(x, FALSE)) = 1 /\ n_in_flight[x] >= 1))
    /\ [][/\ edges \subseteq edges'
          /\ terminal \subseteq terminal'
          /\ \A x \in (edges' \ edges) \cup (terminal' \ terminal) :
                n[x] = 0 /\ x \notin edges /\ x \notin terminal]_vars
\* The second worker's pick of a node that the first has extended and not
\* yet backed up is a collision.
C23_Witness ==
    \E x \in Nodes :
       /\ x \in edges /\ n[x] = 0
       /\ \E a \in EntriesOn(x, FALSE) : a[1] = 1
       /\ \E b \in EntriesOn(x, TRUE) : b[1] = 2

EntriesOf(w, collision) ==
    {i \in 1..Len(minibatch[w]) : minibatch[w][i].is_collision = collision}
\* What each turn of the loop of GatherMinibatch increases.
GatherProgress(g) ==
    g.collisions_found + g.minibatch_size + 2 * g.number_out_of_order

\* C25: GatherMinibatch terminates and respects its budgets: in one
\* iteration the collision entries are at most allowed_node_collisions + 1,
\* the non-collision entries left in the minibatch at most mini_batch_size,
\* and the nodes processed out of order at most mini_batch_size; every turn
\* of the loop increases a count that these budgets bound.
C25_GatherWithinBudgets ==
    /\ [](\A w \in Workers :
            /\ Cardinality(EntriesOf(w, TRUE)) <= kAllowedNodeCollisions + 1
            /\ gather[w].collisions_found <= kAllowedNodeCollisions + 1
            /\ Cardinality(EntriesOf(w, FALSE)) <= kMiniBatchSize
            /\ gather[w].minibatch_size <= kMiniBatchSize
            /\ gather[w].number_out_of_order <= kMiniBatchSize
            /\ GatherProgress(gather[w])
                  <= kAllowedNodeCollisions + 1 + 3 * kMiniBatchSize)
    /\ [][\A w \in Workers :
            (gather'[w] # gather[w] /\ gather'[w] # NoGather) =>
               GatherProgress(gather'[w]) = GatherProgress(gather[w]) + 1]_vars
\* A gathering that has filled the minibatch after a collision.
C25_Witness ==
    \E w \in Workers :
       /\ gather[w].minibatch_size = kMiniBatchSize
       /\ gather[w].collisions_found >= 1
       /\ Cardinality(EntriesOf(w, FALSE)) = kMiniBatchSize
\* The other two budgets are used up as well.
C25_CollisionsUsedUp ==
    \E w \in Workers : gather[w].collisions_found = kAllowedNodeCollisions + 1
C25_OutOfOrderUsedUp ==
    \E w \in Workers : gather[w].number_out_of_order = kMiniBatchSize

\* ------------------------------------------------- the playouts (C26, C27)
\* The statistics with one more visit, and one visit less in flight, on the
\* nodes of S.
VisitedOn(S) == [x \in Nodes |-> IF x \in S THEN n[x] + 1 ELSE n[x]]
LandedOn(S) ==
    [x \in Nodes |-> IF x \in S THEN n_in_flight[x] - 1 ELSE n_in_flight[x]]
\* Worker w takes a step of the in-order backup, on the entry e.
BacksUpEntry(w) ==
    /\ pc[w] = "backup_entry"
    /\ cursor'[w] # cursor[w] \/ pc'[w] # pc[w]
\* Worker w takes a step of the out-of-order backup: one node of the path,
\* and at the end the counters.
BacksUpNode(w) ==
    /\ pc[w] = "ooo_backup"
    /\ cursor'[w] # cursor[w] \/ pc'[w] # pc[w]
CountsPlayout(w) == pc[w] = "ooo_counters" /\ pc'[w] # pc[w]

\* C26: a completed playout that is no collision increments n by exactly 1
\* and decrements n_in_flight by exactly 1 on every node of the path from
\* the leaf to the root, both included, and on no other node, and increases
\* total_playouts by exactly 1; in order or out of order.
C26_PlayoutCountedOnce ==
    [][\A w \in Workers :
          /\ (BacksUpEntry(w) /\ ~minibatch[w][cursor[w]].is_collision) =>
                /\ n' = VisitedOn(PathTo(minibatch[w][cursor[w]].node))
                /\ n_in_flight' = LandedOn(PathTo(minibatch[w][cursor[w]].node))
                /\ total_playouts' = total_playouts + 1
          /\ BacksUpNode(w) =>
                /\ n' = VisitedOn({cursor[w]})
                /\ n_in_flight' = LandedOn({cursor[w]})
                /\ total_playouts' = total_playouts
          /\ CountsPlayout(w) =>
                /\ n' = n /\ n_in_flight' = n_in_flight
                /\ total_playouts' = total_playouts + 1]_vars

\* C27: a collision has no effect on the statistics: the backup of a
\* collision entry changes no node's n, not total_playouts, cum_depth or
\* max_depth and not best_move_edge; it decrements n_in_flight by one on the
\* strict ancestors of the collided node, and leaves that of the collided
\* node and of every other node as it is.
C27_CollisionLeavesStatistics ==
    [][\A w \in Workers :
          (BacksUpEntry(w) /\ minibatch[w][cursor[w]].is_collision) =>
             /\ n' = n
             /\ counterVars' = counterVars
             /\ best_move_edge' = best_move_edge
             /\ n_in_flight' =
                   LandedOn(PathTo(GetParent(minibatch[w][cursor[w]].node)))
             /\ n_in_flight'[minibatch[w][cursor[w]].node] =
                   n_in_flight[minibatch[w][cursor[w]].node]]_vars
\* The only worker has backed up a minibatch with a collision on a child of
\* the root, and nothing is in flight any more.
C27_Witness ==
    /\ threads = 1
    /\ pc[1] = "remaining"
    /\ \E i \in 1..Len(minibatch[1]) :
          /\ minibatch[1][i].is_collision
          /\ GetParent(minibatch[1][i].node) = Root
    /\ \A x \in Nodes : n_in_flight[x] = 0

\* ------------------------------------------------- root pruning (C28)
\* searchmoves does not rule out every move of the root.
SomeMoveAllowed ==
    limits.searchmoves = {} \/ limits.searchmoves \cap LegalMoves(Root) # {}

\* C28: root pruning always keeps a candidate: whenever the root is expanded
\* and searchmoves is empty or contains a legal move, at least one child of
\* the root passes both the visit-deficit pruning and the searchmoves filter
\* of a descent, the current best-move edge among them, also while
\* best_move_edge is unset or has been cleared after the delivery; no
\* descent is left without an edge to follow.
C28_RootPruningKeepsCandidate ==
    /\ (HasChildren(Root) /\ SomeMoveAllowed) =>
          /\ RootCandidates # {}
          /\ best_move_edge # Null => best_move_edge \in RootCandidates
    /\ ~crashed
\* A child of the root is pruned by its visit deficit, and a descent through
\* the root is about to be made.
C28_Witness ==
    /\ \E c \in EdgesOf(Root) : ~NotPruned(c)
    /\ RootCandidates # {}
    /\ \E w \in Workers : pc[w] = "gather" /\ GatherGoesOn(w) /\ WithinBudget
\* The same after the delivery has cleared best_move_edge: nothing is pruned.
C28_ClearedAfterDelivery ==
    /\ responded_bestmove /\ best_move_edge = Null
    /\ \E c \in EdgesOf(Root) : n[c] > 0
    /\ \E w \in Workers : pc[w] = "gather" /\ GatherGoesOn(w) /\ WithinBudget

\* ------------------------------------------- the remaining playouts (C29, C30)
\* Worker w takes the step of UpdateRemainingMoves, smart pruning enabled.
UpdatesRemainingMoves(w) ==
    pc[w] = "remaining" /\ pc'[w] # pc[w] /\ ~PruningDisabled
\* The playouts candidate taken against the playouts limit.
PlayoutsLeft ==
    IF limits.playouts >= 0
    THEN limits.playouts - total_playouts + kMiniBatchSize + 1
    ELSE IntMax

\* C29: UpdateRemainingMoves takes the tighter bound, each against its own
\* counter: with a playouts limit P >= 0 the playouts candidate is
\* P - total_playouts plus the minibatch slack (it depends on
\* limits.playouts, not on limits.visits), with a visits limit V >= 0 the
\* visits candidate is V - total_playouts - initial_visits plus the slack,
\* and remaining_playouts is the least of the candidates that apply (and at
\* least 1).
C29_EachLimitAgainstItsCounter ==
    [][\A w \in Workers :
          UpdatesRemainingMoves(w) =>
             remaining_playouts' =
                Max(1, Min(RemainingFromTime,
                           Min(RemainingFromVisits, PlayoutsLeft)))]_vars

\* C30: remaining_playouts is at least 1 in every reachable state: after
\* every UpdateRemainingMoves, also when the time or the visits budget is
\* already exceeded, it is raised to 1, and it never exceeds the largest int.
C30_RemainingPlayoutsAtLeastOne ==
    remaining_playouts >= 1 /\ remaining_playouts <= IntMax
\* UpdateRemainingMoves has just run with a budget that is exceeded: the
\* least candidate is negative.
C30_Witness ==
    /\ threads = 1
    /\ pc[1] = "info1"
    /\ ~PruningDisabled
    /\ RemainingUnclamped < 0
    /\ remaining_playouts = 1

\* ------------------------------------------------- the visits limit (C31)
\* C31: the visits limit is exceeded by at most the minibatch size: when a
\* search with a visits limit V > initial_visits delivers its best move,
\* total_playouts + initial_visits <= V + mini_batch_size, for any number of
\* workers and with out-of-order evaluation on or off.
C31_VisitsLimitOvershoot ==
    [][(DeliversBestMove /\ limits.visits > initial_visits) =>
          total_playouts + initial_visits
              <= limits.visits + kMiniBatchSize]_vars

\* --------------------------------------------- the tablebase hits (C32)
\* The nodes ExtendNode has just extended: made terminal, or given edges.
MadeTerminal == terminal' \ terminal
GivenEdges == edges' \ edges
\* Whether the position of a node below the root is probed: it has legal
\* moves, no rule draws it, there is a tablebase for it and the fifty-move
\* counter is zero.
Probed(x) ==
    /\ x # Root
    /\ LegalMoves(x) # {}
    /\ board.has_mating_material
    /\ board.repetitions < 2
    /\ board.no_capture_no_pawn_ply = 0
    /\ board.probe_wdl # "none"
\* C32: tb_hits is incremented by one exactly when a non-root node is made
\* terminal from a probe whose state is not FAIL, never otherwise, and never
\* decreases; a node whose probe fails stays non-terminal and receives its
\* edges; without a tablebase tb_hits stays 0; a cursed win and a blessed
\* loss make the node a draw.
C32_TablebaseHitsCounted ==
    /\ [](board.probe_wdl = "none" => tb_hits = 0)
    /\ [][/\ tb_hits' \in {tb_hits, tb_hits + 1}
          /\ tb_hits' = tb_hits + 1 <=>
                \E x \in MadeTerminal : Probed(x) /\ board.probe_wdl # "fail"
          /\ \A x \in MadeTerminal \cup GivenEdges :
                /\ Probed(x) /\ board.probe_wdl = "fail" =>
                      x \in GivenEdges /\ x \notin terminal'
                /\ Probed(x) /\ board.probe_wdl \in {"cursed_win", "blessed_loss"} =>
                      x \in MadeTerminal /\ game_result'[x] = "draw"]_vars
\* A cursed win was probed at a child of the root and counted once, its node
\* is a draw, and the node has been visited again since.
C32_Witness ==
    /\ board.probe_wdl = "cursed_win"
    /\ tb_hits = 1
    /\ game_result[2 * Root] = "draw"
    /\ n[2 * Root] = 2
\* The probe of a child of the root failed: the child has its edges, and the
\* search has gone on below it.
C32_FailedProbe ==
    /\ board.probe_wdl = "fail" /\ board.no_capture_no_pawn_ply = 0
    /\ board.positions = NumNodes
    /\ 2 * Root \in edges
    /\ tb_hits = 0
    /\ n[2 * Root] = 2

\* ------------------------------------------------------ cancellation (C33)
\* A worker is inside an iteration: between the loop test that let it in and
\* the end of UpdateCounters.
InIteration(w) == pc[w] \notin {"loop", "done", "unused"}
\* Every search thread has exited.
AllExited == \A t \in SearchThreads : pc[t] \in {"done", "unused"}
\* The caller is inside Search::Wait.
InWait == pc[Controller] \in {"wait", "wait_destroy"}
\* C33: once stop is set (by Stop, by Abort or by a limit) it is never
\* cleared; every worker that is inside an iteration completes that
\* iteration's backups; no worker starts a new iteration after it has
\* observed stop; the watchdog exits after one last MaybeTriggerStop; and
\* Wait eventually returns with no thread left running.  (Stop being
\* permanent, the last conjunct says of every thread that it leaves its
\* iteration and exits, and of a caller in Wait, where stop is set, that
\* it leaves Wait, which by the conjunct before it does with wait_returned
\* and every thread exited.)
C33_CancellationTerminates ==
    /\ [][stop => stop']_vars
    /\ [](~(\E w \in Workers : InIteration(w)) =>
             \A x \in Nodes : n_in_flight[x] = 0)
    /\ [][\A w \in Workers :
             /\ InIteration(w) /\ ~InIteration(w)' =>
                   pc[w] = "mts3" /\ pc'[w] = "loop"
             /\ pc[w] = "loop" /\ stop /\ pc'[w] # "loop" => pc'[w] = "done"
             /\ pc[w] = "done" => pc'[w] = "done"]_vars
    /\ [][/\ pc[Watchdog] = "wd_loop" /\ stop /\ pc'[Watchdog] # "wd_loop"
                => pc'[Watchdog] = "fin1"
          /\ pc[Watchdog] # "done" /\ pc'[Watchdog] = "done"
                => pc[Watchdog] = "fin3"
          /\ pc[Watchdog] = "done" => pc'[Watchdog] = "done"]_vars
    /\ [][InWait /\ ~InWait' => AllExited /\ wait_returned']_vars
    /\ [](InWait => stop)
    /\ stop ~> (AllExited /\ ~InWait)

\* Stop came to a search of all the workers that had completed playouts;
\* the best move was delivered, every thread has exited with nothing left in
\* flight, and Wait has returned.
C33_Witness ==
    /\ threads = NumWorkers
    /\ stop_called /\ ~aborted
    /\ wait_returned /\ AllExited
    /\ bestmove_calls = 1
    /\ n[Root] = MaxPlayouts
    /\ \A x \in Nodes : n_in_flight[x] = 0

\* ------------------------------------------- infinite and ponder (C34)
\* The go command of the search was infinite or a ponder and gave no
\* movetime.
InfiniteGo ==
    /\ tm.ran
    /\ tm.params.infinite \/ tm.params.ponder
    /\ tm.params.movetime = -1
\* C34: for a go with infinite or ponder set and no movetime, the visits
\* limit is disabled (-1) whatever nodes was given, no time limit is derived
\* from the clock, found_best_move is never set (not even when a single
\* root move is legal or allowed), and the best move is delivered only after
\* Stop().
C34_InfiniteEndsOnlyByStop ==
    InfiniteGo =>
        /\ limits.infinite
        /\ limits.visits = -1
        /\ ~tm.clock /\ limits.time_ms = -1
        /\ ~found_best_move
        /\ bestmove_calls > 0 => stop_called
\* A ponder with nodes given and a single search move: the root has been
\* descended through after its edges were there, and the best move came
\* with the Stop.
C34_Witness ==
    /\ InfiniteGo
    /\ tm.params.ponder /\ tm.params.nodes = MaxPlayouts
    /\ tm.params.time = 1000
    /\ limits.searchmoves = {2 * Root}
    /\ n[Root] = MaxPlayouts
    /\ stop_called /\ bestmove_calls = 1

\* ------------------------------------------- no info after the end (C35)
\* C35: after the best-move callback has been invoked, or the search has
\* been aborted, the info callback is not invoked for that search any more,
\* although the workers that finish their iteration still call
\* MaybeOutputInfo and MaybeTriggerStop.
C35_NoInfoAfterResponse ==
    /\ [](~late_info)
    /\ [][Responded => last_outputted' = last_outputted]_vars
\* The best move was delivered while a worker was in its iteration; the
\* worker has since backed up, which set best_move_edge again, and has gone
\* through MaybeOutputInfo with it.
C35_Witness ==
    /\ bestmove_calls = 1 /\ ~aborted
    /\ best_move_edge # Null
    /\ \E w \in Workers : pc[w] = "mts1"
\* The same after an Abort that came before any delivery.
C35_AfterAbort ==
    /\ aborted /\ bestmove_calls = 0
    /\ best_move_edge # Null
    /\ last_outputted = Null
    /\ \E w \in Workers : pc[w] = "mts1"

\* ------------------------------------------ the best move so far (C36)
\* No worker is inside DoBackupUpdateSingleNode.
NoBackupInProgress ==
    \A w \in Workers :
        pc[w] \notin {"backup", "backup_entry", "ooo_backup", "ooo_counters"}
\* C36: whenever no backup is in progress and best_move_edge is set, before
\* the delivery, no child of the root that searchmoves allows has strictly
\* more visits than best_move_edge, also when the search has started on a
\* reused tree whose root children had visits.
C36_BestMoveEdgeHasMostVisits ==
    (NoBackupInProgress /\ best_move_edge # Null /\ ~responded_bestmove) =>
        \A c \in Considered(Root) : n[c] <= n[best_move_edge]

\* ------------------------------------------------ the visit counts (C37)
\* C37: whenever no iteration is in progress, the root has initial_visits +
\* total_playouts visits and every expanded non-terminal node has one visit
\* more than its children together, for any number of workers and with
\* out-of-order evaluation on or off: no increment is lost or duplicated.
C37_VisitsAddUp ==
    (\A w \in Workers : ~InIteration(w)) =>
        /\ n[Root] = initial_visits + total_playouts
        /\ \A x \in edges \ terminal : n[x] = 1 + SumN(EdgesOf(x))

C38_OutOfOrderHit ==
    \E w \in Workers :
        /\ pc[w] = "ooo_backup"
        /\ Last(minibatch[w]).nn_queried
        /\ Last(minibatch[w]).is_cache_hit

====
